---- MODULE Spec2Model ----
(***************************************************************************)
(* A model of the scrapscript interpreter: the type registry               *)
(* (types/type.go), the inferencer (types/infer.go), the structural        *)
(* matcher and the tree-walking evaluator (eval).                          *)
(***************************************************************************)
EXTENDS Integers, Sequences, FiniteSets, TLC

VARIABLES
    reg,    \* the Registry: unbound, lists, funcs, enums, records, vars
    last,   \* the last operation performed and what it returned
    calls,  \* the constructor calls made so far, each with what it returned
    heap,   \* the backing arrays of slices and the variables closures captured
    bound,  \* the values that where clauses have bound so far
    scraps, \* Environment.scraps: the scraps read so far, by sha256 key
    files   \* the files of the cache directory, by name

vars == <<reg, last, calls, heap, bound, scraps, files>>

----------------------------------------------------------------------------
(* Bounds of the model. *)

MaxVars == 2
MaxUnbound == 1
MaxTypes == 2
MaxInferred == 2

----------------------------------------------------------------------------
(* types/type.go: tags and TypeRef. *)

primitiveTag == 0
listTag == 1
funcTag == 2
enumTag == 3
recordTag == 4
unboundTag == 5
varTag == 6

TagBits == 16

makeTypeRef(tag, index) == tag + (index * TagBits)
tagOf(ref) == ref % TagBits
indexOf(ref) == ref \div TagBits
hasTag(ref, t) == tagOf(ref) = t
IsList(ref) == hasTag(ref, listTag)
IsFunction(ref) == hasTag(ref, funcTag)
IsUnbound(ref) == hasTag(ref, unboundTag)
IsVar(ref) == hasTag(ref, varTag)

NeverRef == 0
HoleRef == 16
IntRef == 32
FloatRef == 48
TextRef == 64
ByteRef == 80
BytesRef == 96

(* A MapRef is a Go map from tag or key to TypeRef.  It is modelled as a   *)
(* function on the whole key universe; Absent marks a key the map lacks.   *)
Keys == {"a", "b"}
Absent == -1
EmptyMap == [k \in Keys |-> Absent]
MapKeys(m) == {k \in Keys : m[k] # Absent}

(* Go iterates a map in an unspecified order: every operation that ranges  *)
(* over a map takes the order as the sequence ord of all keys.             *)
KeyOrders == {<<"a", "b">>, <<"b", "a">>}

FuncRef(arg, result) == [Arg |-> arg, Result |-> result]

EmptyRegistry ==
    [unbound |-> 0, lists |-> <<>>, funcs |-> <<>>, enums |-> <<>>,
     records |-> <<>>, vars |-> <<>>]

Size(r) == Len(r.lists) + Len(r.funcs) + Len(r.enums) + Len(r.records)

(* The first position of el in ls, or 0. *)
IndexIn(ls, el) ==
    IF \E i \in 1..Len(ls) : ls[i] = el
    THEN CHOOSE i \in 1..Len(ls) : ls[i] = el /\ \A j \in 1..(i - 1) : ls[j] # el
    ELSE 0

findOrAddAlways(ls, tag, el) ==
    [ls |-> Append(ls, el), ref |-> makeTypeRef(tag, Len(ls))]

findOrAdd(ls, tag, el) ==
    LET i == IndexIn(ls, el)
    IN  IF i > 0
        THEN [ls |-> ls, ref |-> makeTypeRef(tag, i - 1)]
        ELSE [ls |-> Append(ls, el), ref |-> makeTypeRef(tag, Len(ls))]

findOrAddMap(ls, tag, el) ==
    LET i == IndexIn(ls, el)
    IN  IF i > 0
        THEN [ls |-> ls, ref |-> makeTypeRef(tag, i - 1)]
        ELSE [ls |-> Append(ls, el), ref |-> makeTypeRef(tag, Len(ls))]

List(r, ref) ==
    LET f == findOrAdd(r.lists, listTag, ref)
    IN  [reg |-> [r EXCEPT !.lists = f.ls], ref |-> f.ref]

Func(r, from, to) ==
    LET f == findOrAdd(r.funcs, funcTag, FuncRef(from, to))
    IN  [reg |-> [r EXCEPT !.funcs = f.ls], ref |-> f.ref]

Enum(r, m) ==
    LET f == findOrAddMap(r.enums, enumTag, m)
    IN  [reg |-> [r EXCEPT !.enums = f.ls], ref |-> f.ref]

Record(r, m) ==
    LET f == findOrAddMap(r.records, recordTag, m)
    IN  [reg |-> [r EXCEPT !.records = f.ls], ref |-> f.ref]

GetList(r, ref) == IF tagOf(ref) # listTag THEN NeverRef ELSE r.lists[indexOf(ref) + 1]

GetFunc(r, ref) ==
    IF tagOf(ref) # funcTag THEN FuncRef(NeverRef, NeverRef) ELSE r.funcs[indexOf(ref) + 1]

(* GetEnum and GetRecord return nil when the kind disagrees: EmptyMap, and *)
(* IsEnum / IsRecord tell nil from an empty map.                           *)
GetEnum(r, ref) == IF tagOf(ref) # enumTag THEN EmptyMap ELSE r.enums[indexOf(ref) + 1]
GetRecord(r, ref) == IF tagOf(ref) # recordTag THEN EmptyMap ELSE r.records[indexOf(ref) + 1]

Unbound(r) ==
    [reg |-> [r EXCEPT !.unbound = @ + 1], ref |-> makeTypeRef(unboundTag, r.unbound)]

Var(r) ==
    [reg |-> [r EXCEPT !.vars = Append(@, NeverRef)], ref |-> makeTypeRef(varTag, Len(r.vars))]

(* GetVar resolves one var -> var layer at a time, writing what it finds   *)
(* back into the side table.  The recursion does not end on a var -> var   *)
(* cycle: fuel counts the layers, and a chain longer than the table is a   *)
(* cycle, reported as diverged (the Go stack overflows).                   *)
RECURSIVE GetVarN(_, _, _)
GetVarN(r, ref, fuel) ==
    IF tagOf(ref) # varTag
    THEN [reg |-> r, ref |-> NeverRef, diverged |-> FALSE]
    ELSE LET index == indexOf(ref)
             mid == r.vars[index + 1]
         IN  IF hasTag(mid, varTag)
             THEN IF fuel = 0
                  THEN [reg |-> r, ref |-> NeverRef, diverged |-> TRUE]
                  ELSE LET inner == GetVarN(r, mid, fuel - 1)
                       IN  IF inner.diverged
                           THEN inner
                           ELSE [reg |-> [inner.reg EXCEPT !.vars[index + 1] = inner.ref],
                                 ref |-> inner.ref, diverged |-> FALSE]
             ELSE [reg |-> r, ref |-> mid, diverged |-> FALSE]

GetVar(r, ref) == GetVarN(r, ref, Len(r.vars))

(* The TypeRefs traverse hands to its callback: target and everything it   *)
(* is built from.  A var is a leaf: its binding is not followed.           *)
RECURSIVE traverse(_, _)
traverse(r, target) ==
    LET tag == tagOf(target)
        index == indexOf(target)
    IN  {target} \cup
        (CASE tag = listTag -> traverse(r, r.lists[index + 1])
           [] tag = funcTag -> traverse(r, r.funcs[index + 1].Arg)
                                 \cup traverse(r, r.funcs[index + 1].Result)
           [] tag = enumTag ->
                UNION {traverse(r, r.enums[index + 1][k]) : k \in MapKeys(r.enums[index + 1])}
           [] tag = recordTag ->
                UNION {traverse(r, r.records[index + 1][k]) : k \in MapKeys(r.records[index + 1])}
           [] OTHER -> {})

(* A Subst is a sequence of Sub{replace, with}. *)
Sub(replace, with) == [replace |-> replace, with |-> with]

binds(s, target) == \E i \in 1..Len(s) : s[i].replace = target

(* The with of the first Sub that replaces target. *)
firstWith(s, target) ==
    s[CHOOSE i \in 1..Len(s) :
        s[i].replace = target /\ \A j \in 1..(i - 1) : s[j].replace # target].with

Ok(r, s) == [reg |-> r, subst |-> s, err |-> ""]
Panic(r, msg) == [reg |-> r, subst |-> <<>>, err |-> msg]

ErrCannotUnify == "cannot unify"
ErrOccurs == "occurs check failed"
ErrStackOverflow == "stack overflow"

BindVar(r, a, b) ==
    IF a = b
    THEN Ok(r, <<>>)
    ELSE IF a \in traverse(r, b)
         THEN Panic(r, ErrOccurs)
         ELSE Ok(r, <<Sub(a, b)>>)

RECURSIVE substitute(_, _, _, _)
RECURSIVE substituteMap(_, _, _, _, _, _)

(* The map of a substituted enum or record: the entries of m in the order  *)
(* ord from position i on, added to acc.                                   *)
substituteMap(r, m, subst, ord, i, acc) ==
    IF i > Len(ord)
    THEN [reg |-> r, map |-> acc]
    ELSE IF m[ord[i]] = Absent
         THEN substituteMap(r, m, subst, ord, i + 1, acc)
         ELSE LET v == substitute(r, m[ord[i]], subst, ord)
              IN  substituteMap(v.reg, m, subst, ord, i + 1,
                                [acc EXCEPT ![ord[i]] = v.ref])

substitute(r, target, subst, ord) ==
    LET tag == tagOf(target)
        index == indexOf(target)
    IN  CASE tag = unboundTag ->
               IF binds(subst, target)
               THEN [reg |-> r, ref |-> firstWith(subst, target)]
               ELSE [reg |-> r, ref |-> target]
          [] tag = varTag ->
               IF binds(subst, target)
               THEN [reg |-> [r EXCEPT !.vars[index + 1] = firstWith(subst, target)],
                     ref |-> firstWith(subst, target)]
               ELSE [reg |-> r, ref |-> target]
          [] tag = listTag ->
               LET e == substitute(r, r.lists[index + 1], subst, ord)
               IN  List(e.reg, e.ref)
          [] tag = funcTag ->
               LET fn == r.funcs[index + 1]
                   a == substitute(r, fn.Arg, subst, ord)
                   b == substitute(a.reg, fn.Result, subst, ord)
               IN  Func(b.reg, a.ref, b.ref)
          [] tag = enumTag ->
               LET m == substituteMap(r, r.enums[index + 1], subst, ord, 1, EmptyMap)
               IN  Enum(m.reg, m.map)
          [] tag = recordTag ->
               LET m == substituteMap(r, r.records[index + 1], subst, ord, 1, EmptyMap)
               IN  Record(m.reg, m.map)
          [] OTHER -> [reg |-> r, ref |-> target]

(* Compose substitutes every with of b by a (for its effects only: the     *)
(* loop variable is a copy), then adds the Subs of a that b does not bind. *)
RECURSIVE composeEffects(_, _, _, _, _)
composeEffects(r, a, b, ord, i) ==
    IF i > Len(b)
    THEN r
    ELSE composeEffects(substitute(r, b[i].with, a, ord).reg, a, b, ord, i + 1)

RECURSIVE composeBind(_, _, _)
composeBind(res, a, i) ==
    IF i > Len(a)
    THEN res
    ELSE composeBind(IF binds(res, a[i].replace) THEN res ELSE Append(res, a[i]), a, i + 1)

Compose(r, a, b, ord) ==
    [reg |-> composeEffects(r, a, b, ord, 1), subst |-> composeBind(b, a, 1)]

(* The stringer: String prints a TypeRef, calling GetVar on every var it   *)
(* meets (which writes to the side table) and printing what the var        *)
(* resolves to.  depth bounds the recursion, which does not end when a     *)
(* binding leads back to its var.                                          *)
primitiveNames == <<"never", "()", "int", "float", "text", "byte", "bytes">>
unboundNames == <<"a", "b", "c", "d", "e", "f">>
SortedKeys == <<"a", "b">>

Stringer(r) == [reg |-> r, diverged |-> FALSE, out |-> "", unbounds |-> <<>>]
Emit(st, text) == [st EXCEPT !.out = @ \o text]

RECURSIVE stringN(_, _, _, _)
RECURSIVE stringMap(_, _, _, _, _)

(* stringer.enum and stringer.record: the keys of m in sorted order, from  *)
(* position i on.                                                          *)
stringMap(st, m, i, isEnum, depth) ==
    IF i > Len(SortedKeys) \/ st.diverged
    THEN st
    ELSE LET key == SortedKeys[i]
             more == \E j \in (i + 1)..Len(SortedKeys) : m[SortedKeys[j]] # Absent
             sep == IF more THEN (IF isEnum THEN " " ELSE ", ") ELSE ""
             val == IF isEnum
                    THEN IF m[key] = NeverRef
                         THEN Emit(st, "#" \o key)
                         ELSE stringN(Emit(st, "#" \o key \o " "), m[key], 1, depth)
                    ELSE stringN(Emit(st, key \o " : "), m[key], 1, depth)
         IN  IF m[key] = Absent
             THEN stringMap(st, m, i + 1, isEnum, depth)
             ELSE stringMap(Emit(val, sep), m, i + 1, isEnum, depth)

stringN(st, ref, nesting, depth) ==
    LET tag == tagOf(ref)
        index == indexOf(ref)
    IN  IF st.diverged
        THEN st
        ELSE IF depth = 0
        THEN [st EXCEPT !.diverged = TRUE]
        ELSE CASE tag = primitiveTag -> Emit(st, primitiveNames[index + 1])
               [] tag = listTag ->
                    LET open == Emit(st, IF nesting > 1 THEN "(list " ELSE "list ")
                        elem == stringN(open, st.reg.lists[index + 1], 2, depth - 1)
                    IN  Emit(elem, IF nesting > 1 THEN ")" ELSE "")
               [] tag = funcTag ->
                    LET fn == st.reg.funcs[index + 1]
                        arg == stringN(Emit(st, IF nesting > 0 THEN "(" ELSE ""),
                                       fn.Arg, 1, depth - 1)
                        res == stringN(Emit(arg, " -> "), fn.Result, 0, depth - 1)
                    IN  Emit(res, IF nesting > 0 THEN ")" ELSE "")
               [] tag = enumTag -> stringMap(st, st.reg.enums[index + 1], 1, TRUE, depth - 1)
               [] tag = recordTag ->
                    Emit(stringMap(Emit(st, "{ "), st.reg.records[index + 1], 1, FALSE,
                                   depth - 1), " }")
               [] tag = unboundTag ->
                    LET i == IndexIn(st.unbounds, index)
                    IN  IF i > 0
                        THEN Emit(st, unboundNames[i])
                        ELSE Emit([st EXCEPT !.unbounds = Append(@, index)],
                                  unboundNames[Len(st.unbounds) + 1])
               [] tag = varTag ->
                    LET g == GetVar(st.reg, ref)
                    IN  IF g.diverged
                        THEN [st EXCEPT !.reg = g.reg, !.diverged = TRUE]
                        ELSE IF g.ref = NeverRef
                             THEN Emit([st EXCEPT !.reg = g.reg], "$" \o ToString(index))
                             ELSE stringN([st EXCEPT !.reg = g.reg], g.ref, nesting, depth - 1)
               [] OTHER -> st

String(r, ref) == stringN(Stringer(r), ref, 0, Size(r) + Len(r.vars) + 2)

(* panic("cannot unify '" + c.String(a) + "' with '" + c.String(b) + "'") *)
CannotUnify(r, a, b) ==
    LET sa == String(r, a)
        sb == String(sa.reg, b)
    IN  IF sa.diverged
        THEN Panic(sa.reg, ErrStackOverflow)
        ELSE IF sb.diverged
             THEN Panic(sb.reg, ErrStackOverflow)
             ELSE Panic(sb.reg, ErrCannotUnify)

(* A var that resolves to never is free: GetVar is only called on a var. *)
FreeVar(r, a) ==
    IF IsVar(a) THEN GetVar(r, a) ELSE [reg |-> r, ref |-> IntRef, diverged |-> FALSE]

RECURSIVE Unify(_, _, _, _)
Unify(r, a, b, ord) ==
    IF a = b
    THEN Ok(r, <<>>)
    ELSE LET ga == FreeVar(r, a)
         IN  IF ga.diverged
             THEN Panic(ga.reg, ErrStackOverflow)
             ELSE IF IsUnbound(a) \/ (IsVar(a) /\ ga.ref = NeverRef)
             THEN BindVar(ga.reg, a, b)
             ELSE LET gb == FreeVar(ga.reg, b)
                  IN  IF gb.diverged
                      THEN Panic(gb.reg, ErrStackOverflow)
                      ELSE IF IsUnbound(b) \/ (IsVar(b) /\ gb.ref = NeverRef)
                      THEN BindVar(gb.reg, b, a)
                      ELSE IF tagOf(a) = tagOf(b) /\ IsFunction(a)
                      THEN LET aFn == GetFunc(gb.reg, a)
                               bFn == GetFunc(gb.reg, b)
                               s1 == Unify(gb.reg, aFn.Arg, bFn.Arg, ord)
                               x == substitute(s1.reg, aFn.Result, s1.subst, ord)
                               y == substitute(x.reg, bFn.Result, s1.subst, ord)
                               s2 == Unify(y.reg, x.ref, y.ref, ord)
                               c == Compose(s2.reg, s1.subst, s2.subst, ord)
                           IN  IF s1.err # ""
                               THEN s1
                               ELSE IF s2.err # "" THEN s2 ELSE Ok(c.reg, c.subst)
                      ELSE IF tagOf(a) = tagOf(b) /\ IsList(a)
                      THEN Unify(gb.reg, GetList(gb.reg, a), GetList(gb.reg, b), ord)
                      ELSE CannotUnify(gb.reg, a, b)

(* insertUnbound gives every unbound of target a fresh var; it descends    *)
(* into lists and functions only.                                          *)
RECURSIVE insertUnbound(_, _, _)
insertUnbound(r, target, subst) ==
    LET tag == tagOf(target)
        index == indexOf(target)
    IN  CASE tag = unboundTag ->
               IF binds(subst, target)
               THEN [reg |-> r, subst |-> subst]
               ELSE [reg |-> Var(r).reg, subst |-> Append(subst, Sub(target, Var(r).ref))]
          [] tag = listTag -> insertUnbound(r, r.lists[index + 1], subst)
          [] tag = funcTag ->
               LET fn == r.funcs[index + 1]
                   a == insertUnbound(r, fn.Arg, subst)
               IN  insertUnbound(a.reg, fn.Result, a.subst)
          [] OTHER -> [reg |-> r, subst |-> subst]

Instantiate(r, target, ord) ==
    LET iu == insertUnbound(r, target, <<>>)
    IN  substitute(iu.reg, target, iu.subst, ord)

----------------------------------------------------------------------------
(* The state machine of one Registry. *)

(* The TypeRefs a caller can hold: some primitives and what the registry   *)
(* has handed out.                                                         *)
Prims == {IntRef}

Refs(r) ==
    Prims
    \cup {makeTypeRef(listTag, i - 1) : i \in 1..Len(r.lists)}
    \cup {makeTypeRef(funcTag, i - 1) : i \in 1..Len(r.funcs)}
    \cup {makeTypeRef(enumTag, i - 1) : i \in 1..Len(r.enums)}
    \cup {makeTypeRef(recordTag, i - 1) : i \in 1..Len(r.records)}
    \cup {makeTypeRef(unboundTag, i - 1) : i \in 1..r.unbound}
    \cup {makeTypeRef(varTag, i - 1) : i \in 1..Len(r.vars)}

Fits(r) == Size(r) <= MaxTypes /\ Len(r.vars) <= MaxVars /\ r.unbound <= MaxUnbound

Op(op, a, b, m, ref, err, subst) ==
    [op |-> op, a |-> a, b |-> b, m |-> m, ref |-> ref, err |-> err, subst |-> subst]

NoOp == Op("none", NeverRef, NeverRef, EmptyMap, NeverRef, "", <<>>)

Call(op, a, b, m, ref) == [op |-> op, a |-> a, b |-> b, m |-> m, ref |-> ref]

Init ==
    /\ reg = EmptyRegistry
    /\ last = NoOp
    /\ calls = {}
    /\ heap = <<>>
    /\ bound = <<>>
    /\ scraps = <<>>
    /\ files = <<>>

DoVar ==
    /\ Fits(Var(reg).reg)
    /\ reg' = Var(reg).reg
    /\ last' = Op("Var", NeverRef, NeverRef, EmptyMap, Var(reg).ref, "", <<>>)
    /\ UNCHANGED <<calls, heap, bound, scraps, files>>

DoList ==
    \E el \in Refs(reg) :
        LET res == List(reg, el)
        IN  /\ Fits(res.reg)
            /\ reg' = res.reg
            /\ last' = Op("List", el, NeverRef, EmptyMap, res.ref, "", <<>>)
            /\ calls' = calls \cup {Call("List", el, NeverRef, EmptyMap, res.ref)}
            /\ UNCHANGED <<heap, bound, scraps, files>>

DoFunc ==
    \E from \in Refs(reg), to \in Refs(reg) :
        LET res == Func(reg, from, to)
        IN  /\ Fits(res.reg)
            /\ reg' = res.reg
            /\ last' = Op("Func", from, to, EmptyMap, res.ref, "", <<>>)
            /\ calls' = calls \cup {Call("Func", from, to, EmptyMap, res.ref)}
            /\ UNCHANGED <<heap, bound, scraps, files>>

(* The registry and the result after a call ended with res. *)
Returns(res, op) ==
    /\ Fits(res.reg)
    /\ reg' = res.reg
    /\ last' = op
    /\ UNCHANGED <<calls, heap, bound, scraps, files>>

Unifies(a, b, u) == Returns(u, Op("Unify", a, b, EmptyMap, NeverRef, u.err, u.subst))

DoUnify ==
    /\ last.err # ErrStackOverflow
    /\ \E a \in Refs(reg), b \in Refs(reg), ord \in KeyOrders :
          Unifies(a, b, Unify(reg, a, b, ord))

NextUnify == DoVar \/ DoList \/ DoFunc \/ DoUnify

SpecUnify == Init /\ [][NextUnify]_vars

DoUnbound ==
    /\ Fits(Unbound(reg).reg)
    /\ reg' = Unbound(reg).reg
    /\ last' = Op("Unbound", NeverRef, NeverRef, EmptyMap, Unbound(reg).ref, "", <<>>)
    /\ UNCHANGED <<calls, heap, bound, scraps, files>>

(* The maps a caller builds: every key is absent or maps to a primitive, *)
(* an unbound or a var; an enum tag without payload maps to never.         *)
Leaves(r) == {x \in Refs(r) : tagOf(x) \in {primitiveTag, unboundTag, varTag}}
Maps(vals) == [Keys -> vals \cup {Absent}]

DoEnum ==
    \E m \in Maps(Leaves(reg) \cup {NeverRef}) :
        LET res == Enum(reg, m)
        IN  /\ Fits(res.reg)
            /\ reg' = res.reg
            /\ last' = Op("Enum", NeverRef, NeverRef, m, res.ref, "", <<>>)
            /\ calls' = calls \cup {Call("Enum", NeverRef, NeverRef, m, res.ref)}
            /\ UNCHANGED <<heap, bound, scraps, files>>

DoRecord ==
    \E m \in Maps(Leaves(reg)) :
        LET res == Record(reg, m)
        IN  /\ Fits(res.reg)
            /\ reg' = res.reg
            /\ last' = Op("Record", NeverRef, NeverRef, m, res.ref, "", <<>>)
            /\ calls' = calls \cup {Call("Record", NeverRef, NeverRef, m, res.ref)}
            /\ UNCHANGED <<heap, bound, scraps, files>>

Instantiates(target, res) ==
    Returns(res, Op("Instantiate", target, NeverRef, EmptyMap, res.ref, "", <<>>))

DoInstantiate ==
    \E target \in Refs(reg), ord \in KeyOrders :
        Instantiates(target, Instantiate(reg, target, ord))

(* Constructor calls only. *)
NextIntern == DoVar \/ DoUnbound \/ DoList \/ DoFunc \/ DoEnum \/ DoRecord

SpecIntern == Init /\ [][NextIntern]_vars

(* Unify over vars, enums and records. *)
NextRecords == DoVar \/ DoEnum \/ DoRecord \/ DoUnify

SpecRecords == Init /\ [][NextRecords]_vars

(* Instantiate over types built from unbounds. *)
NextInst == DoUnbound \/ DoList \/ DoFunc \/ DoEnum \/ DoRecord \/ DoInstantiate

SpecInst == Init /\ [][NextInst]_vars

----------------------------------------------------------------------------
(* Cycles in the variable side table. *)

(* What a TypeRef is directly built from; a bound var leads to its binding. *)
Children(r, ref) ==
    LET tag == tagOf(ref)
        index == indexOf(ref)
    IN  CASE tag = listTag -> {r.lists[index + 1]}
          [] tag = funcTag -> {r.funcs[index + 1].Arg, r.funcs[index + 1].Result}
          [] tag = enumTag -> {r.enums[index + 1][k] : k \in MapKeys(r.enums[index + 1])}
          [] tag = recordTag -> {r.records[index + 1][k] : k \in MapKeys(r.records[index + 1])}
          [] tag = varTag -> {r.vars[index + 1]} \ {NeverRef}
          [] OTHER -> {}

RECURSIVE ReachFrom(_, _)
ReachFrom(r, S) ==
    LET T == S \cup UNION {Children(r, x) : x \in S}
    IN  IF T = S THEN S ELSE ReachFrom(r, T)

VarRefs(r) == {makeTypeRef(varTag, i - 1) : i \in 1..Len(r.vars)}

OnCycle(r, v) == v \in ReachFrom(r, Children(r, v))

(* C1: after any sequence of Var, List, Func and Unify the side table has  *)
(* no cycle: following the binding of a var, through list and function     *)
(* components and further bindings, never comes back to that var, and no   *)
(* Unify ran out of stack resolving one.                                   *)
C1_NoCycle ==
    /\ \A v \in VarRefs(reg) : ~OnCycle(reg, v)
    /\ last.err # ErrStackOverflow

(* C1: a Unify that returned without error left a var bound to a type that *)
(* leads back to it.                                                       *)
C1_CycleAfterUnify ==
    /\ last.op = "Unify"
    /\ last.err = ""
    /\ \E v \in VarRefs(reg) : OnCycle(reg, v)

----------------------------------------------------------------------------
(* Interning. *)

IsCtor(op) == op \in {"List", "Func", "Enum", "Record"}

SameArgs(c1, c2) == c1.op = c2.op /\ c1.a = c2.a /\ c1.b = c2.b /\ c1.m = c2.m

(* The TypeRef a call returned denotes the structure the call was given. *)
Denotes(r, c) ==
    CASE c.op = "List" -> hasTag(c.ref, listTag) /\ GetList(r, c.ref) = c.a
      [] c.op = "Func" -> hasTag(c.ref, funcTag) /\ GetFunc(r, c.ref) = FuncRef(c.a, c.b)
      [] c.op = "Enum" -> hasTag(c.ref, enumTag) /\ GetEnum(r, c.ref) = c.m
      [] c.op = "Record" -> hasTag(c.ref, recordTag) /\ GetRecord(r, c.ref) = c.m
      [] OTHER -> FALSE

(* C3: interning is structural.  After every step, two constructor calls   *)
(* made so far returned the same TypeRef exactly when their arguments were *)
(* equal, every TypeRef returned so far still denotes the structure it was *)
(* returned for, and a call whose arguments equal those of an earlier call *)
(* leaves the registry as it was.                                          *)
C3_Interning ==
    [][/\ \A c1 \in calls', c2 \in calls' : (c1.ref = c2.ref) <=> SameArgs(c1, c2)
       /\ \A c \in calls' : Denotes(reg', c)
       /\ (IsCtor(last'.op) /\ \E c \in calls : SameArgs(c, last')) => reg' = reg]_vars

(* C3: an Enum call returned a TypeRef that was handed out before other    *)
(* enums were added.                                                       *)
C3_SecondCall ==
    /\ last.op = "Enum"
    /\ indexOf(last.ref) + 1 < Len(reg.enums)
    /\ MapKeys(last.m) = Keys
    /\ Cardinality(calls) >= 2

----------------------------------------------------------------------------
(* Unify on enums and records. *)

(* x is a var with no binding that the type y does not lead to. *)
FreeFor(r, x, y) ==
    /\ IsVar(x)
    /\ y # NeverRef
    /\ r.vars[indexOf(x) + 1] = NeverRef
    /\ x \notin ReachFrom(r, {y})

(* a and b are two records, or two enums, with the same keys, the same     *)
(* TypeRef under every key but one, and under that key a free var on one   *)
(* side.                                                                   *)
UnifiableMaps(r, a, b) ==
    /\ tagOf(a) = tagOf(b)
    /\ tagOf(a) \in {enumTag, recordTag}
    /\ LET ma == IF tagOf(a) = enumTag THEN GetEnum(r, a) ELSE GetRecord(r, a)
           mb == IF tagOf(b) = enumTag THEN GetEnum(r, b) ELSE GetRecord(r, b)
       IN  /\ MapKeys(ma) = MapKeys(mb)
           /\ \E k \in MapKeys(ma) :
                /\ \A j \in MapKeys(ma) \ {k} : ma[j] = mb[j]
                /\ FreeFor(r, ma[k], mb[k]) \/ FreeFor(r, mb[k], ma[k])

(* C4: unifying two records (or two enums) with equal key sets whose       *)
(* values differ under one key only, where one side has a free var,        *)
(* succeeds; unify({ a : $v }, { a : int }) is the instance.               *)
C4_MapsUnify ==
    [][(last'.op = "Unify" /\ UnifiableMaps(reg, last'.a, last'.b)) => last'.err = ""]_vars

----------------------------------------------------------------------------
(* Instantiate. *)

Unbounds(r, ref) == {x \in traverse(r, ref) : IsUnbound(x)}

(* C5: the TypeRef Instantiate returns contains no unbound. *)
C5_NoUnboundLeft ==
    last.op = "Instantiate" => Unbounds(reg, last.ref) = {}

----------------------------------------------------------------------------
(* The destructive unification the inferencer calls (Registry.unify,       *)
(* Registry.Resolve, Registry.generalize), modelled on section 4.1 of the  *)
(* specification.                                                          *)

(* resolve(t): follow the var -> var chain and return the representative:  *)
(* a free var or a type that is no var.  Every var on the chain is left    *)
(* pointing at the representative.                                         *)
RECURSIVE Resolve(_, _)
Resolve(r, t) ==
    IF ~IsVar(t) \/ r.vars[indexOf(t) + 1] = NeverRef
    THEN [reg |-> r, ref |-> t]
    ELSE LET rep == Resolve(r, r.vars[indexOf(t) + 1])
         IN  [reg |-> [rep.reg EXCEPT !.vars[indexOf(t) + 1] = rep.ref], ref |-> rep.ref]

ErrUnexpectedUnbound == "unexpected unbound var during unification"

Unified(r) == [reg |-> r, err |-> ""]
Failed(r, msg) == [reg |-> r, err |-> msg]

RECURSIVE unify(_, _, _, _)
RECURSIVE unifyMaps(_, _, _, _, _)

(* Pairwise by key, in the order ord from position i on. *)
unifyMaps(r, ma, mb, ord, i) ==
    IF i > Len(ord)
    THEN Unified(r)
    ELSE IF ma[ord[i]] = Absent
         THEN unifyMaps(r, ma, mb, ord, i + 1)
         ELSE LET u == unify(r, ma[ord[i]], mb[ord[i]], ord)
              IN  IF u.err # "" THEN u ELSE unifyMaps(u.reg, ma, mb, ord, i + 1)

unify(r, a, b, ord) ==
    LET ra == Resolve(r, a)
        rb == Resolve(ra.reg, b)
        a1 == ra.ref
        b1 == rb.ref
        r1 == rb.reg
        index == indexOf(a1)
    IN  IF a1 = b1
        THEN Unified(r1)
        ELSE IF IsVar(a1)
        THEN IF a1 \in traverse(r1, b1)
             THEN Failed(r1, ErrOccurs)
             ELSE Unified([r1 EXCEPT !.vars[index + 1] = b1])
        ELSE IF IsVar(b1)
        THEN IF b1 \in traverse(r1, a1)
             THEN Failed(r1, ErrOccurs)
             ELSE Unified([r1 EXCEPT !.vars[indexOf(b1) + 1] = a1])
        ELSE IF tagOf(a1) # tagOf(b1)
        THEN Failed(r1, ErrCannotUnify)
        ELSE CASE tagOf(a1) = listTag -> unify(r1, GetList(r1, a1), GetList(r1, b1), ord)
               [] tagOf(a1) = funcTag ->
                    LET args == unify(r1, GetFunc(r1, a1).Arg, GetFunc(r1, b1).Arg, ord)
                    IN  IF args.err # ""
                        THEN args
                        ELSE unify(args.reg, GetFunc(r1, a1).Result, GetFunc(r1, b1).Result, ord)
               [] tagOf(a1) = enumTag ->
                    IF MapKeys(GetEnum(r1, a1)) # MapKeys(GetEnum(r1, b1))
                    THEN Failed(r1, ErrCannotUnify)
                    ELSE unifyMaps(r1, GetEnum(r1, a1), GetEnum(r1, b1), ord, 1)
               [] tagOf(a1) = recordTag ->
                    IF MapKeys(GetRecord(r1, a1)) # MapKeys(GetRecord(r1, b1))
                    THEN Failed(r1, ErrCannotUnify)
                    ELSE unifyMaps(r1, GetRecord(r1, a1), GetRecord(r1, b1), ord, 1)
               [] tagOf(a1) = unboundTag -> Failed(r1, ErrUnexpectedUnbound)
               [] OTHER -> Failed(r1, ErrCannotUnify)

(* generalize(t): a copy of t with each var replaced by a distinct         *)
(* unbound, shared vars staying shared.  A bound var stands for the type   *)
(* it resolves to.  subst maps the vars met so far to their unbounds.      *)
RECURSIVE generalizeN(_, _, _, _)
RECURSIVE generalizeMap(_, _, _, _, _, _)

generalizeMap(r, m, subst, ord, i, acc) ==
    IF i > Len(ord)
    THEN [reg |-> r, map |-> acc, subst |-> subst]
    ELSE IF m[ord[i]] = Absent
         THEN generalizeMap(r, m, subst, ord, i + 1, acc)
         ELSE LET v == generalizeN(r, m[ord[i]], subst, ord)
              IN  generalizeMap(v.reg, m, v.subst, ord, i + 1, [acc EXCEPT ![ord[i]] = v.ref])

generalizeN(r, t, subst, ord) ==
    LET rt == Resolve(r, t)
        ref == rt.ref
        index == indexOf(ref)
        tag == tagOf(ref)
    IN  CASE tag = varTag ->
               IF binds(subst, ref)
               THEN [reg |-> rt.reg, ref |-> firstWith(subst, ref), subst |-> subst]
               ELSE LET u == Unbound(rt.reg)
                    IN  [reg |-> u.reg, ref |-> u.ref, subst |-> Append(subst, Sub(ref, u.ref))]
          [] tag = listTag ->
               LET e == generalizeN(rt.reg, rt.reg.lists[index + 1], subst, ord)
                   l == List(e.reg, e.ref)
               IN  [reg |-> l.reg, ref |-> l.ref, subst |-> e.subst]
          [] tag = funcTag ->
               LET fn == rt.reg.funcs[index + 1]
                   a == generalizeN(rt.reg, fn.Arg, subst, ord)
                   b == generalizeN(a.reg, fn.Result, a.subst, ord)
                   f == Func(b.reg, a.ref, b.ref)
               IN  [reg |-> f.reg, ref |-> f.ref, subst |-> b.subst]
          [] tag = enumTag ->
               LET m == generalizeMap(rt.reg, rt.reg.enums[index + 1], subst, ord, 1, EmptyMap)
                   e == Enum(m.reg, m.map)
               IN  [reg |-> e.reg, ref |-> e.ref, subst |-> m.subst]
          [] tag = recordTag ->
               LET m == generalizeMap(rt.reg, rt.reg.records[index + 1], subst, ord, 1, EmptyMap)
                   e == Record(m.reg, m.map)
               IN  [reg |-> e.reg, ref |-> e.ref, subst |-> m.subst]
          [] OTHER -> [reg |-> rt.reg, ref |-> ref, subst |-> subst]

generalize(r, t, ord) ==
    LET g == generalizeN(r, t, <<>>, ord)
    IN  [reg |-> g.reg, ref |-> g.ref]

----------------------------------------------------------------------------
(* ast: the nodes of an expression.  Nil is the absent expression. *)

Nil == [k |-> "nil"]
Literal(kind, val) == [k |-> "lit", Kind |-> kind, Val |-> val]
Ident(name) == [k |-> "id", Name |-> name]
FuncExpr(arg, body) == [k |-> "fn", Arg |-> arg, Body |-> body]
CallExpr(fn, arg) == [k |-> "call", Fn |-> fn, Arg |-> arg]
BinaryExpr(left, op, right) == [k |-> "bin", Left |-> left, Op |-> op, Right |-> right]
ListExpr(elements) == [k |-> "list", Elements |-> elements]
RecordExpr(entries, rest) == [k |-> "rec", Entries |-> entries, Rest |-> rest]
WhereExpr(expr, id, typ, val) == [k |-> "where", Expr |-> expr, Id |-> id, Typ |-> typ, Val |-> val]

(* Entries of a record expression: a Go map from key to expression. *)
NoEntries == [key \in Keys |-> Nil]

----------------------------------------------------------------------------
(* types/infer.go: the inferencer. *)

(* A Scope is a chain of name bindings, the innermost last. *)
Bind(scope, name, val) == Append(scope, [name |-> name, val |-> val])

Lookup(scope, name) ==
    IF \E i \in 1..Len(scope) : scope[i].name = name
    THEN scope[CHOOSE i \in 1..Len(scope) :
                 scope[i].name = name /\ \A j \in (i + 1)..Len(scope) : scope[j].name # name].val
    ELSE NeverRef

Typed(r, ref) == [reg |-> r, ref |-> ref, err |-> ""]
bail(r, msg) == [reg |-> r, ref |-> NeverRef, err |-> msg]

(* panic(fmt.Sprintf(...)): a panic whose value is a string, which         *)
(* context.ensure recovers while it unifies and types.Infer does not.      *)
CantInferNode == "panic: can't infer node"
CantInferBinary == "panic: can't infer binary expression"
StringPanics == {CantInferNode, CantInferBinary}
InferredOps == {"PICK", "PREPEND", "APPEND", "CONCAT", "ADD", "SUB", "MUL", "LPIPE", "RPIPE"}

literalTypeRef(kind) ==
    CASE kind = "hole" -> HoleRef
      [] kind = "int" -> IntRef
      [] kind = "float" -> FloatRef
      [] kind = "text" -> TextRef
      [] kind = "byte" -> ByteRef
      [] kind = "bytes" -> BytesRef
      [] OTHER -> NeverRef

ensure(r, got, want, ord) ==
    IF got # want
    THEN LET u == unify(r, got, want, ord)
         IN  [reg |-> u.reg, ref |-> want, err |-> u.err]
    ELSE Typed(r, want)

(* c.ensure(x, got, want) after an ensure that ended with e *)
ensureNext(e, got, want, ord) == IF e.err # "" THEN e ELSE ensure(e.reg, got, want, ord)

(* context.pend *)
pend(r, single, list, ord) ==
    IF single = ByteRef \/ list = BytesRef
    THEN ensureNext(ensure(r, single, ByteRef, ord), list, BytesRef, ord)
    ELSE ensure(List(r, single).reg, List(r, single).ref, list, ord)

(* a := c.reg.List(c.reg.Var()); c.ensure(x, left, right);                 *)
(* c.ensure(x, left, a); return a                                          *)
concatLists(a, left, right, ord) ==
    ensureNext(ensure(a.reg, left, right, ord), left, a.ref, ord)

(* context.infer, case token.CONCAT *)
concat(r, left, right, ord) ==
    IF left = TextRef \/ right = TextRef
    THEN [ensure(r, left, right, ord) EXCEPT !.ref = TextRef]
    ELSE IF left = BytesRef \/ right = BytesRef
    THEN [ensure(r, left, right, ord) EXCEPT !.ref = BytesRef]
    ELSE concatLists(List(Var(r).reg, Var(r).ref), left, right, ord)

RECURSIVE inferImport(_, _, _, _)
RECURSIVE infer(_, _, _, _)
RECURSIVE inferTyp(_, _, _, _)
RECURSIVE call(_, _, _, _, _)
RECURSIVE inferEnum(_, _, _, _, _, _, _)
RECURSIVE inferList(_, _, _, _, _, _)
RECURSIVE inferEntries(_, _, _, _, _, _)
RECURSIVE inferSpread(_, _, _, _, _, _)

(* context.list: the loop over the elements from position i on; res is the *)
(* type of the elements so far.                                            *)
inferList(r, scope, elements, ord, i, res) ==
    IF i > Len(elements)
    THEN IF res = NeverRef
         THEN List(Var(r).reg, Var(r).ref) @@ [err |-> ""]
         ELSE List(r, res) @@ [err |-> ""]
    ELSE LET typ == infer(r, scope, elements[i], ord)
             e == ensure(typ.reg, res, typ.ref, ord)
         IN  IF typ.err # ""
             THEN typ
             ELSE IF res = NeverRef
                  THEN inferList(typ.reg, scope, elements, ord, i + 1, typ.ref)
                  ELSE IF e.err # ""
                       THEN e
                       ELSE inferList(e.reg, scope, elements, ord, i + 1, res)

(* context.record without a spread: the entries in the order ord. *)
inferEntries(r, scope, entries, ord, i, acc) ==
    IF i > Len(ord)
    THEN Record(r, acc) @@ [err |-> ""]
    ELSE IF entries[ord[i]] = Nil
         THEN inferEntries(r, scope, entries, ord, i + 1, acc)
         ELSE LET v == infer(r, scope, entries[ord[i]], ord)
              IN  IF v.err # ""
                  THEN v
                  ELSE inferEntries(v.reg, scope, entries, ord, i + 1,
                                    [acc EXCEPT ![ord[i]] = v.ref])

(* context.record with a spread: every listed entry must have exactly the  *)
(* TypeRef the base record rec has under its key.                          *)
inferSpread(r, scope, entries, rec, ord, i) ==
    IF i > Len(ord)
    THEN Typed(r, NeverRef)
    ELSE IF entries[ord[i]] = Nil
         THEN inferSpread(r, scope, entries, rec, ord, i + 1)
         ELSE IF rec[ord[i]] = Absent
              THEN bail(r, "cannot set " \o ord[i] \o " not in the base record")
              ELSE LET actual == infer(r, scope, entries[ord[i]], ord)
                       se == String(actual.reg, rec[ord[i]])
                       sa == String(se.reg, actual.ref)
                   IN  IF actual.err # ""
                       THEN actual
                       ELSE IF actual.ref # rec[ord[i]]
                            THEN bail(sa.reg, "type of " \o ord[i] \o " must be " \o se.out
                                                \o ", not " \o sa.out)
                            ELSE inferSpread(actual.reg, scope, entries, rec, ord, i + 1)

(* context.enum: the loop over the variants from position i on; rec is    *)
(* context.infer for an enum expression and context.typ for a type.       *)
inferEnum(r, scope, variants, rec, ord, i, ref) ==
    IF i > Len(variants)
    THEN Enum(r, ref) @@ [err |-> ""]
    ELSE IF variants[i].Typ = Nil
    THEN inferEnum(r, scope, variants, rec, ord, i + 1, [ref EXCEPT ![variants[i].Tag] = NeverRef])
    ELSE LET vRef == IF rec = "typ" THEN inferTyp(r, scope, variants[i].Typ, ord)
                     ELSE infer(r, scope, variants[i].Typ, ord)
         IN  IF vRef.err # ""
             THEN vRef
             ELSE inferEnum(vRef.reg, scope, variants, rec, ord, i + 1,
                            [ref EXCEPT ![variants[i].Tag] = vRef.ref])

(* context.typ *)
inferTyp(r, scope, x, ord) ==
    CASE x.k = "id" ->
           IF Lookup(scope, x.Name) = NeverRef
           THEN bail(r, "unknown type " \o x.Name)
           ELSE Typed(r, Lookup(scope, x.Name))
      [] x.k = "fn" ->
           LET arg == inferTyp(r, scope, x.Arg, ord)
               body == inferTyp(arg.reg, scope, x.Body, ord)
           IN  IF arg.err # ""
               THEN arg
               ELSE IF body.err # ""
               THEN body
               ELSE Func(body.reg, arg.ref, body.ref) @@ [err |-> ""]
      [] x.k = "enum" -> inferEnum(r, scope, x.Variants, "typ", ord, 1, EmptyMap)
      [] OTHER -> bail(r, "cannot infer type of node")

(* context.pick, after x.Left was inferred as ref; val is Nil when the     *)
(* pick is not called.                                                     *)
inferPick(ref, scope, x, val, ord) ==
    IF ref.err # ""
    THEN ref
    ELSE IF tagOf(ref.ref) # enumTag
    THEN bail(ref.reg, String(ref.reg, ref.ref).out \o " isn't an enum")
    ELSE IF x.Right.k # "id"
    THEN Typed(ref.reg, NeverRef)
    ELSE IF GetEnum(ref.reg, ref.ref)[x.Right.Name] = Absent
    THEN bail(ref.reg, "#" \o x.Right.Name \o " isn't a valid option for enum "
                           \o String(ref.reg, ref.ref).out)
    ELSE IF GetEnum(ref.reg, ref.ref)[x.Right.Name] = NeverRef
    THEN IF val # Nil
         THEN bail(ref.reg, "#" \o x.Right.Name \o " doesn't take any value")
         ELSE ref
    ELSE LET valRef == infer(ref.reg, scope, val, ord)
             e == ensure(valRef.reg, valRef.ref, GetEnum(ref.reg, ref.ref)[x.Right.Name], ord)
         IN  IF valRef.err # ""
             THEN valRef
             ELSE [e EXCEPT !.ref = IF e.err = "" THEN ref.ref ELSE NeverRef]

(* context.call *)
call(r, scope, fn, arg, ord) ==
    LET res == Var(r)
        fnTy == infer(res.reg, scope, fn, ord)
        argTy == infer(fnTy.reg, scope, arg, ord)
        want == Func(argTy.reg, argTy.ref, res.ref)
        e == ensure(want.reg, fnTy.ref, want.ref, ord)
    IN  IF fnTy.err # ""
        THEN fnTy
        ELSE IF argTy.err # ""
             THEN argTy
             ELSE IF e.err # "" THEN e ELSE Typed(e.reg, res.ref)

infer(r, scope, x, ord) ==
    CASE x.k = "lit" -> Typed(r, literalTypeRef(x.Kind))
      [] x.k = "id" ->
           IF Lookup(scope, x.Name) = NeverRef
           THEN bail(r, "unbound variable: " \o x.Name)
           ELSE Instantiate(r, Lookup(scope, x.Name), ord) @@ [err |-> ""]
      [] x.k = "where" /\ x.Val # Nil /\ x.Typ = Nil ->
           LET tyVal == infer(r, scope, x.Val, ord)
               g == generalize(tyVal.reg, tyVal.ref, ord)
           IN  IF tyVal.err # ""
               THEN tyVal
               ELSE infer(g.reg, Bind(scope, x.Id.Name, g.ref), x.Expr, ord)
      [] x.k = "where" /\ x.Val = Nil ->
           LET typ == inferTyp(r, scope, x.Typ, ord)
               g == generalize(typ.reg, typ.ref, ord)
           IN  IF typ.err # ""
               THEN typ
               ELSE infer(g.reg, Bind(scope, x.Id.Name, g.ref), x.Expr, ord)
      [] x.k = "where" /\ x.Val # Nil /\ x.Typ # Nil ->
           LET tyVal == infer(r, scope, x.Val, ord)
               typ == inferTyp(tyVal.reg, scope, x.Typ, ord)
               e == ensure(typ.reg, tyVal.ref, typ.ref, ord)
               g == generalize(e.reg, tyVal.ref, ord)
           IN  IF tyVal.err # ""
               THEN tyVal
               ELSE IF typ.err # ""
               THEN typ
               ELSE IF e.err # ""
               THEN e
               ELSE infer(g.reg, Bind(scope, x.Id.Name, g.ref), x.Expr, ord)
      [] x.k = "enum" -> inferEnum(r, scope, x.Variants, "infer", ord, 1, EmptyMap)
      [] x.k = "list" -> inferList(r, scope, x.Elements, ord, 1, NeverRef)
      [] x.k = "rec" /\ x.Rest = Nil -> inferEntries(r, scope, x.Entries, ord, 1, EmptyMap)
      [] x.k = "rec" /\ x.Rest # Nil ->
           LET rest == infer(r, scope, x.Rest, ord)
               sp == inferSpread(rest.reg, scope, x.Entries, GetRecord(rest.reg, rest.ref), ord, 1)
           IN  IF rest.err # ""
               THEN rest
               ELSE IF tagOf(rest.ref) # recordTag
                    THEN bail(String(rest.reg, rest.ref).reg,
                              "cannot spread from non-record type "
                                \o String(rest.reg, rest.ref).out)
                    ELSE IF sp.err # "" THEN sp ELSE Typed(sp.reg, rest.ref)
      [] x.k = "fn" ->
           LET binder == Var(r)
               ret == infer(binder.reg, Bind(scope, x.Arg.Name, binder.ref), x.Body, ord)
           IN  IF ret.err # ""
               THEN ret
               ELSE Func(ret.reg, binder.ref, ret.ref) @@ [err |-> ""]
      [] x.k = "call" /\ x.Fn.k = "bin" /\ x.Fn.Op = "PICK" ->
           inferPick(infer(r, scope, x.Fn.Left, ord), scope, x.Fn, x.Arg, ord)
      [] x.k = "bin" /\ x.Op = "PICK" ->
           inferPick(infer(r, scope, x.Left, ord), scope, x, Nil, ord)
      [] x.k = "call" /\ ~(x.Fn.k = "bin" /\ x.Fn.Op = "PICK") ->
           call(r, scope, x.Fn, x.Arg, ord)
      [] x.k = "bin" /\ x.Op \in {"ADD", "SUB", "MUL"} ->
           LET left == infer(r, scope, x.Left, ord)
               right == infer(left.reg, scope, x.Right, ord)
               both == ensure(right.reg, left.ref, right.ref, ord)
               el == ensure(right.reg, left.ref, IntRef, ord)
               er == ensure(el.reg, right.ref, IntRef, ord)
           IN  IF left.err # ""
               THEN left
               ELSE IF right.err # ""
               THEN right
               ELSE IF left.ref = FloatRef \/ right.ref = FloatRef
               THEN [reg |-> both.reg, ref |-> FloatRef, err |-> both.err]
               ELSE IF el.err # "" THEN el ELSE er
      [] x.k = "bin" /\ x.Op \in {"PREPEND", "APPEND", "CONCAT"} ->
           LET left == infer(r, scope, x.Left, ord)
               right == infer(left.reg, scope, x.Right, ord)
           IN  IF left.err # ""
               THEN left
               ELSE IF right.err # ""
               THEN right
               ELSE CASE x.Op = "PREPEND" -> pend(right.reg, left.ref, right.ref, ord)
                      [] x.Op = "APPEND" -> pend(right.reg, right.ref, left.ref, ord)
                      [] OTHER -> concat(right.reg, left.ref, right.ref, ord)
      [] x.k = "bin" /\ x.Op = "LPIPE" -> call(r, scope, x.Left, x.Right, ord)
      [] x.k = "bin" /\ x.Op = "RPIPE" -> call(r, scope, x.Right, x.Left, ord)
      [] x.k = "bin" /\ x.Op \notin InferredOps -> bail(r, CantInferBinary)
      [] x.k = "import" -> inferImport(r, x.HashAlgo, x.Value, ord)
      [] x.k \in {"nil", "variant"} -> bail(r, CantInferNode)

----------------------------------------------------------------------------
(* Inference of programs on one registry, in the scope TestInferInScope    *)
(* builds: len : list a -> int and id : a -> a.                            *)

TestScope ==
    LET u == Unbound(EmptyRegistry)
        l == List(u.reg, u.ref)
        len == Func(l.reg, l.ref, IntRef)
        a == Unbound(len.reg)
        id == Func(a.reg, a.ref, a.ref)
    IN  [reg |-> id.reg, scope |-> Bind(Bind(<<>>, "len", len.ref), "id", id.ref)]

Int1 == Literal("int", 1)
Float1 == Literal("float", 1)
Text0 == Literal("text", "")

Lambda2(body) == FuncExpr(Ident("a"), FuncExpr(Ident("b"), body))

Atoms == {Int1, Float1, Ident("a"), Ident("b")}
Arith == {BinaryExpr(x, op, y) : x \in Atoms, op \in {"ADD", "MUL"}, y \in Atoms}

(* a -> b -> (1.0 + a) op e  and  a -> b -> (a + 1.0) op e *)
FloatFirst ==
    {Lambda2(BinaryExpr(BinaryExpr(x, "ADD", y), op, e)) :
        x \in {Float1}, y \in {Ident("a")}, op \in {"ADD", "MUL"}, e \in Arith}
    \cup {Lambda2(BinaryExpr(BinaryExpr(y, "ADD", x), op, e)) :
        x \in {Float1}, y \in {Ident("a")}, op \in {"ADD", "MUL"}, e \in Arith}

(* { a = f 1, b = f "" } *)
TwoUses(f) ==
    RecordExpr([key \in Keys |-> IF key = "a" THEN CallExpr(Ident(f), Int1)
                                              ELSE CallExpr(Ident(f), Text0)], Nil)

RecId == TwoUses("id")
RecId2 == WhereExpr(TwoUses("id2"), Ident("id2"), Nil, FuncExpr(Ident("a"), Ident("a")))

(* [ p, { a = [ 1 ] } ] ; p = { a = [] } *)
ListP ==
    WhereExpr(ListExpr(<<Ident("p"), RecordExpr([NoEntries EXCEPT !["a"] = ListExpr(<<Int1>>)], Nil)>>),
              Ident("p"), Nil, RecordExpr([NoEntries EXCEPT !["a"] = ListExpr(<<>>)], Nil))

Programs ==
    {Lambda2(e) : e \in Arith}
    \cup FloatFirst
    \cup {RecId, RecId2, ListP, Ident("id"), Ident("len"), Ident("b"),
          CallExpr(Ident("id"), Int1),
          CallExpr(Ident("len"), ListExpr(<<>>)),
          ListExpr(<<CallExpr(Ident("id"), Int1), CallExpr(Ident("id"), Text0)>>),
          FuncExpr(Ident("a"), CallExpr(Ident("a"), Ident("a"))),
          RecordExpr([NoEntries EXCEPT !["a"] = Float1], RecordExpr([NoEntries EXCEPT !["a"] = Int1], Nil)),
          RecordExpr([NoEntries EXCEPT !["b"] = Int1], RecordExpr([NoEntries EXCEPT !["a"] = Int1], Nil)),
          RecordExpr([NoEntries EXCEPT !["a"] = Int1], Int1)}

Inferred(prog, res) == [op |-> "Infer", prog |-> prog, ref |-> res.ref, err |-> res.err]

InitInfer ==
    /\ reg = TestScope.reg
    /\ last = NoOp
    /\ calls = {}
    /\ heap = <<>>
    /\ bound = <<>>
    /\ scraps = <<>>
    /\ files = <<>>

(* Infer(reg, scope, se, nil) *)
InferEnds(prog, res) ==
    /\ reg' = res.reg
    /\ last' = Inferred(prog, res)
    /\ UNCHANGED <<calls, heap, bound, scraps, files>>

DoInfer ==
    \E prog \in Programs, ord \in KeyOrders :
        /\ Len(reg.vars) < MaxInferred
        /\ InferEnds(prog, infer(reg, TestScope.scope, prog, ord))

SpecInfer == InitInfer /\ [][DoInfer]_vars

(* The type each program has when every use of a where-bound or built-in   *)
(* name is given fresh variables.                                          *)
PolyUses == {RecId, RecId2, ListP}
Expected(prog) == IF prog = ListP THEN "list { a : list int }" ELSE "{ a : int, b : text }"

(* C2: every lookup of a name bound to a generalized type yields fresh     *)
(* variables, so each use unifies with the type it is used at: inferring   *)
(* { a = id 1, b = id "" }, { a = id2 1, b = id2 "" } ; id2 = a -> a and   *)
(* [ p, { a = [ 1 ] } ] ; p = { a = [] } ends without error with the       *)
(* expected type, and the scheme stored for id is unchanged afterwards.    *)
C2_FreshPerUse ==
    (last.op = "Infer" /\ last.prog \in PolyUses) =>
        /\ last.err = ""
        /\ String(reg, last.ref).out = Expected(last.prog)
        /\ String(reg, Lookup(TestScope.scope, "id")).out = "a -> a"

(* C6: a parameter that an earlier float operation fixed to float can be   *)
(* used in a second arithmetic operation with another parameter: inferring *)
(* a -> b -> (1.0 + a) op (x op' y), where x and y are parameters, ends    *)
(* without error.                                                          *)
C6_FloatDecides ==
    (/\ last.op = "Infer"
     /\ last.prog \in FloatFirst
     /\ last.prog.Body.Body.Right.Left \in {Ident("a"), Ident("b")}
     /\ last.prog.Body.Body.Right.Right \in {Ident("a"), Ident("b")}) =>
        last.err = ""

----------------------------------------------------------------------------
(* ast: the nodes only the evaluator handles.  A MatchFuncExpr is the      *)
(* sequence of its alternatives, each a FuncExpr; an EnumExpr the sequence *)
(* of its variants.                                                        *)

MatchFuncExpr(alts) == [k |-> "match", Alts |-> alts]
VariantExpr(tag, typ) == [k |-> "variant", Tag |-> tag, Typ |-> typ]
ImportExpr(algo, value) == [k |-> "import", HashAlgo |-> algo, Value |-> value]
EnumExpr(variants) == [k |-> "enum", Variants |-> variants]

----------------------------------------------------------------------------
(* eval: values.  nil is the Go nil Value; a ScriptFunc carries its source *)
(* text and, for fn, the data its closure captured.                        *)

nil == [k |-> "nil"]
Hole == [k |-> "hole"]
IntValue(i) == [k |-> "int", v |-> i]
FloatValue(f) == [k |-> "float", v |-> f]
TextValue(t) == [k |-> "text", v |-> t]
Type(ref) == [k |-> "type", ref |-> ref]
RecordValue(typ, values) == [k |-> "record", typ |-> typ, values |-> values]
ListValue(typ, elements) == [k |-> "list", typ |-> typ, elements |-> elements]
Variant(typ, tag, value) == [k |-> "variant", typ |-> typ, tag |-> tag, value |-> value]
ScriptFunc(source, fn) == [k |-> "func", source |-> source, fn |-> fn]
BuiltInFunc(name, typ, fn) == [k |-> "builtin", name |-> name, typ |-> typ, fn |-> fn]

(* The values of a Record: a Go map from key to Value; missing marks a key *)
(* the map does not hold.                                                  *)
missing == [k |-> "missing"]
NoValues == [key \in Keys |-> missing]
ValueKeys(values) == {key \in Keys : values[key] # missing}

(* Value.Type *)
TypeOf(val) ==
    CASE val.k = "hole" -> HoleRef
      [] val.k = "int" -> IntRef
      [] val.k = "float" -> FloatRef
      [] val.k = "text" -> TextRef
      [] val.k \in {"record", "list", "variant", "builtin"} -> val.typ
      [] OTHER -> NeverRef

Quote(t) == "\"" \o t \o "\""

RECURSIVE ValueString(_)
RECURSIVE joinValues(_, _)
RECURSIVE joinFields(_, _, _)

(* The loop of List.String from element i on. *)
joinValues(elements, i) ==
    IF i > Len(elements) THEN ""
    ELSE ValueString(elements[i])
         \o (IF i < Len(elements) THEN ", " ELSE "")
         \o joinValues(elements, i + 1)

(* The loop of Record.String over the sorted keys from position i on. *)
joinFields(values, keys, i) ==
    IF i > Len(keys) THEN ""
    ELSE keys[i] \o " = " \o ValueString(values[keys[i]])
         \o (IF i < Len(keys) THEN ", " ELSE "")
         \o joinFields(values, keys, i + 1)

(* Value.String; a Float is held as its integral part. *)
ValueString(val) ==
    CASE val.k = "hole" -> "()"
      [] val.k = "int" -> ToString(val.v)
      [] val.k = "float" -> ToString(val.v) \o ".0"
      [] val.k = "text" -> Quote(val.v)
      [] val.k = "type" -> "<type>"
      [] val.k = "record" ->
            "{ " \o joinFields(val.values,
                               SelectSeq(SortedKeys, LAMBDA key : val.values[key] # missing), 1)
                 \o " }"
      [] val.k = "list" ->
            IF Len(val.elements) = 0 THEN "[]"
            ELSE "[ " \o joinValues(val.elements, 1) \o " ]"
      [] val.k = "variant" ->
            "#" \o val.tag \o (IF val.value # nil THEN " " \o ValueString(val.value) ELSE "")
      [] val.k = "func" -> val.source
      [] val.k = "builtin" -> val.name
      [] OTHER -> "<nil>"

----------------------------------------------------------------------------
(* token.Source: the text of a node.  Programs are taken to be written the *)
(* way Source prints them, so that Source(x) is source.GetString(x.Span()).*)

RECURSIVE Source(_)
RECURSIVE joinSources(_, _, _)
RECURSIVE joinEntries(_, _, _)

joinSources(xs, sep, i) ==
    IF i > Len(xs) THEN ""
    ELSE Source(xs[i]) \o (IF i < Len(xs) THEN sep ELSE "") \o joinSources(xs, sep, i + 1)

joinEntries(entries, keys, i) ==
    IF i > Len(keys) THEN ""
    ELSE keys[i] \o " = " \o Source(entries[keys[i]])
         \o (IF i < Len(keys) THEN ", " ELSE "")
         \o joinEntries(entries, keys, i + 1)

Source(x) ==
    CASE x.k = "lit" ->
            (CASE x.Kind = "int" -> ToString(x.Val)
               [] x.Kind = "float" -> ToString(x.Val) \o ".0"
               [] x.Kind = "text" -> Quote(x.Val)
               [] OTHER -> "()")
      [] x.k = "id" -> x.Name
      [] x.k = "fn" -> Source(x.Arg) \o " -> " \o Source(x.Body)
      [] x.k = "match" -> joinSources(x.Alts, " | ", 1)
      [] x.k = "call" -> Source(x.Fn) \o " " \o Source(x.Arg)
      [] x.k = "bin" ->
            Source(x.Left)
            \o (CASE x.Op = "ADD" -> " + " [] x.Op = "SUB" -> " - " [] x.Op = "MUL" -> " * "
                  [] x.Op = "RPIPE" -> " |> " [] x.Op = "PICK" -> "::"
                  [] x.Op = "PREPEND" -> " >+ " [] x.Op = "APPEND" -> " +< "
                  [] OTHER -> " ++ ")
            \o Source(x.Right)
      [] x.k = "list" ->
            IF Len(x.Elements) = 0 THEN "[]"
            ELSE "[ " \o joinSources(x.Elements, ", ", 1) \o " ]"
      [] x.k = "rec" ->
            LET keys == SelectSeq(SortedKeys, LAMBDA key : x.Entries[key] # Nil)
            IN  IF x.Rest = Nil /\ Len(keys) = 0 THEN "{}"
                ELSE "{ " \o (IF x.Rest # Nil
                              THEN ".." \o Source(x.Rest) \o (IF Len(keys) > 0 THEN ", " ELSE "")
                              ELSE "")
                          \o joinEntries(x.Entries, keys, 1) \o " }"
      [] x.k = "variant" ->
            "#" \o x.Tag \o (IF x.Typ # Nil THEN " " \o Source(x.Typ) ELSE "")
      [] x.k = "enum" -> joinSources(x.Variants, " ", 1)
      [] x.k = "where" -> Source(x.Expr) \o " ; " \o x.Id.Name
            \o (IF x.Val.k = "enum" THEN " : " ELSE " = ") \o Source(x.Val)
      [] OTHER -> ""

----------------------------------------------------------------------------
(* eval: Literal, Variables and the matcher.  An error is modelled by its  *)
(* message, without the position source.Error puts in front of it.         *)

LiteralValue(x) ==
    CASE x.Kind = "hole" -> Hole
      [] x.Kind = "int" -> IntValue(x.Val)
      [] x.Kind = "float" -> FloatValue(x.Val)
      [] x.Kind = "text" -> TextValue(x.Val)
      [] OTHER -> nil

(* Variables is a Go map from name to Value: missing marks a name the map  *)
(* does not hold, which is not the same as a name it holds with nil.       *)
Names == {"a", "b", "f", "x", "e", "int", "round"}
NoVariables == [name \in Names |-> missing]

ErrNoMatch == "no match found"
ErrNoFloatMatch == "cannot match on floats"
BoundTwice(name) == "cannot bind " \o name \o " twice"
MissingKey(tag) == "cannot bind to missing key " \o tag

(* A matcher.error that returns to its caller. *)
matcherErrorResumes(m, err) == [m EXCEPT !.err = err]

(* matcher.error: m.err is set and the panic unwinds to Match. *)
matcherError(m, err) == [m EXCEPT !.err = err, !.bail = TRUE]

(* A clone from which no key is deleted. *)
withoutNothing(m, entries, gone) == m

(* maps.Clone followed by the deletion of the keys of entries. *)
withoutEntries(m, entries, gone) ==
    [key \in Keys |-> IF entries[key] # Nil THEN gone ELSE m[key]]

RECURSIVE match(_, _, _, _)
RECURSIVE matchEntries(_, _, _, _, _)
RECURSIVE matchElements(_, _, _, _, _)

(* The loop over x.Entries in map order ord, from position i on. *)
matchEntries(m, entries, record, ord, i) ==
    IF m.bail \/ i > Len(ord) THEN m
    ELSE IF entries[ord[i]] = Nil THEN matchEntries(m, entries, record, ord, i + 1)
    ELSE IF record.values[ord[i]] = missing THEN matcherError(m, MissingKey(ord[i]))
    ELSE matchEntries(match(m, entries[ord[i]], record.values[ord[i]], ord),
                      entries, record, ord, i + 1)

(* The loop over x.Elements from position i on. *)
matchElements(m, elements, values, ord, i) ==
    IF m.bail \/ i > Len(elements) THEN m
    ELSE matchElements(match(m, elements[i], values[i], ord), elements, values, ord, i + 1)

match(m, x, val, ord) ==
    IF m.bail THEN m
    ELSE CASE x.k = "id" ->
                IF x.Name = "_" THEN m
                ELSE IF m.vars[x.Name] # missing THEN matcherError(m, BoundTwice(x.Name))
                ELSE [m EXCEPT !.vars[x.Name] = val]
           [] x.k = "lit" ->
                IF x.Kind = "float" THEN matcherError(m, ErrNoFloatMatch)
                ELSE IF LiteralValue(x) # val THEN [m EXCEPT !.err = ErrNoMatch]
                ELSE m
           [] x.k = "variant" /\ val.k = "variant" /\ x.Tag = val.tag ->
                match(m, x.Typ, val.value, ord)
           [] x.k = "rec" /\ val.k = "record" ->
                LET done == matchEntries(m, x.Entries, val, ord, 1)
                IN  IF done.bail \/ x.Rest = Nil THEN done
                    ELSE LET ref == withoutEntries(GetRecord(done.reg, val.typ), x.Entries, Absent)
                             rest == withoutEntries(val.values, x.Entries, missing)
                             typ == Record(done.reg, ref)
                         IN  match([done EXCEPT !.reg = typ.reg], x.Rest,
                                   RecordValue(typ.ref, rest), ord)
           [] x.k = "list" /\ val.k = "list" ->
                IF Len(x.Elements) # Len(val.elements) THEN [m EXCEPT !.err = ErrNoMatch]
                ELSE matchElements(m, x.Elements, val.elements, ord, 1)
           [] x.k = "bin" /\ x.Op = "PREPEND" /\ val.k = "list" /\ Len(val.elements) > 0 ->
                match(match(m, x.Left, val.elements[1], ord),
                      x.Right, ListValue(val.typ, Tail(val.elements)), ord)
           [] x.k = "bin" /\ x.Op = "APPEND" /\ val.k = "list" /\ Len(val.elements) > 0 ->
                match(match(m, x.Left,
                            ListValue(val.typ, SubSeq(val.elements, 1, Len(val.elements) - 1)), ord),
                      x.Right, val.elements[1], ord)
           [] x.k = "bin" /\ x.Op = "CONCAT" /\ val.k = "list" /\ x.Left.k = "list" ->
                LET n == Len(x.Left.Elements)
                IN  IF n > Len(val.elements) THEN [m EXCEPT !.err = ErrNoMatch]
                    ELSE match(matchElements(m, x.Left.Elements, SubSeq(val.elements, 1, n), ord, 1),
                               x.Right,
                               ListValue(val.typ, SubSeq(val.elements, n + 1, Len(val.elements))),
                               ord)
           [] x.k = "bin" /\ x.Op = "CONCAT" /\ val.k = "list" /\ x.Left.k # "list"
                /\ x.Right.k = "list" ->
                LET n == Len(val.elements) - Len(x.Right.Elements)
                IN  IF n < 0 THEN [m EXCEPT !.err = ErrNoMatch]
                    ELSE matchElements(match(m, x.Left, ListValue(val.typ, SubSeq(val.elements, 1, n)), ord),
                                       x.Right.Elements,
                                       SubSeq(val.elements, n + 1, Len(val.elements)), ord, 1)
           [] OTHER -> [m EXCEPT !.err = ErrNoMatch]

(* Match: the bindings and the error; a bail leaves vars nil. *)
Match(r, x, val, ord) ==
    LET m == match([reg |-> r, vars |-> NoVariables, err |-> "", bail |-> FALSE], x, val, ord)
    IN  [reg |-> m.reg, vars |-> IF m.bail THEN nil ELSE m.vars, err |-> m.err]

----------------------------------------------------------------------------
(* eval/eval.go: the evaluator.  A context is the chain of its frames, the *)
(* outermost first; a result is the registry, the Value and the error.     *)

Get(frame, name) == IF frame[name] = missing THEN nil ELSE frame[name]

(* Binding{name, value} and Variables{name: value} answer Get alike. *)
Binding(name, value) == [NoVariables EXCEPT ![name] = value]

sub(c, frame) == Append(c, frame)

Value(r, val) == [reg |-> r, val |-> val, err |-> ""]
Error(r, msg) == [reg |-> r, val |-> nil, err |-> msg]

UnknownVariable(name) == "unknown variable " \o name

(* context.ident: the first frame, from the innermost outwards, whose Get  *)
(* is not nil.                                                             *)
ident(r, c, name) ==
    LET found == {i \in 1..Len(c) : Get(c[i], name) # nil}
    IN  IF found = {} THEN Error(r, UnknownVariable(name))
        ELSE Value(r, Get(c[CHOOSE i \in found : \A j \in found : j <= i], name))

(* binop on Int and on Float *)
binop(t, a, b) ==
    CASE t = "ADD" -> a + b
      [] t = "SUB" -> a - b
      [] OTHER -> a * b

Callable(val) == IF val.k \in {"func", "builtin"} THEN val.fn ELSE nil

NoAlternative(source, a) == source \o " had no alternative for " \o ValueString(a)
NotInBase(tag) == "cannot set key " \o tag \o " not in the base record"
ChangesType(r, tag, typ, got) ==
    "cannot change type of key " \o tag \o " from " \o String(r, typ).out
        \o " to " \o String(r, got).out

(* roundFunc: the Func of round, ceil and floor.  A float of the model is *)
(* a whole number.  A value that is no float gives Int(0) and an error.   *)
roundFunc(r, val) ==
    IF val.k = "float" THEN Value(r, IntValue(val.v))
    ELSE [reg |-> r, val |-> IntValue(0), err |-> "non-float value " \o val.k]

RECURSIVE evalImport(_, _, _, _)
RECURSIVE eval(_, _, _, _)
RECURSIVE apply(_, _, _, _)
RECURSIVE matchAlternatives(_, _, _, _, _)
RECURSIVE matchAlternativesSkipping(_, _, _, _, _)
RECURSIVE newEntries(_, _, _, _, _, _, _)
RECURSIVE spreadEntries(_, _, _, _, _, _, _)
RECURSIVE spreadEntriesUntyped(_, _, _, _, _, _, _)
RECURSIVE listElements(_, _, _, _, _, _, _)
RECURSIVE enumVariants(_, _, _, _, _)
RECURSIVE typeRef(_, _, _)
RECURSIVE pick(_, _, _, _, _)

(* context.typeRef: the result holds the TypeRef in val. *)
typeRef(r, c, x) ==
    CASE x.k = "id" ->
            LET v == ident(r, c, x.Name)
            IN  IF v.err # "" THEN v
                ELSE IF v.val.k # "type"
                THEN Error(r, "required a type, got " \o ValueString(v.val))
                ELSE Value(r, v.val.ref)
      [] x.k = "fn" ->
            LET argRef == typeRef(r, c, x.Arg)
                bodyRef == typeRef(argRef.reg, c, x.Body)
                fn == Func(bodyRef.reg, argRef.val, bodyRef.val)
            IN  IF argRef.err # "" THEN argRef
                ELSE IF bodyRef.err # "" THEN bodyRef
                ELSE Value(fn.reg, fn.ref)
      [] OTHER -> Error(r, Source(x) \o " does not evaluate to a type")

(* context.enum: the loop over the variants from position i on. *)
enumVariants(r, c, variants, enum, i) ==
    IF i > Len(variants)
    THEN LET e == Enum(r, enum) IN Value(e.reg, Type(e.ref))
    ELSE LET v == variants[i]
         IN  IF enum[v.Tag] # Absent
             THEN Error(r, "cannot define tag #" \o v.Tag \o " more than once")
             ELSE IF v.Typ = Nil
             THEN enumVariants(r, c, variants, [enum EXCEPT ![v.Tag] = NeverRef], i + 1)
             ELSE LET t == typeRef(r, c, v.Typ)
                  IN  IF t.err # "" THEN Error(t.reg, t.err)
                      ELSE enumVariants(t.reg, c, variants, [enum EXCEPT ![v.Tag] = t.val], i + 1)

(* context.pick: pick.Left :: pick.Right, applied to x unless x is Nil. *)
pick(r, c, pk, x, ord) ==
    LET ref == typeRef(r, c, pk.Left)
        tag == pk.Right.Name
        enum == GetEnum(ref.reg, ref.val)
    IN  IF ref.err # "" THEN Error(ref.reg, ref.err)
        ELSE IF pk.Right.k # "id" THEN Error(ref.reg, "cannot pick using non-identifier")
        ELSE IF tag \in Keys /\ enum[tag] # Absent
        THEN IF enum[tag] = NeverRef
             THEN IF x = Nil THEN Value(ref.reg, Variant(ref.val, tag, nil))
                  ELSE Error(ref.reg, "#" \o tag \o " does not take a value")
             ELSE IF x = Nil
                  THEN Error(ref.reg, "#" \o tag \o " requires a value of type "
                                          \o String(ref.reg, enum[tag]).out)
                  ELSE LET v == eval(ref.reg, c, x, ord)
                       IN  IF v.err # "" THEN v
                           ELSE IF TypeOf(v.val) # enum[tag]
                           THEN Error(v.reg, "#" \o tag \o " requires a value of type "
                                                 \o String(v.reg, enum[tag]).out \o ", got "
                                                 \o String(v.reg, TypeOf(v.val)).out)
                           ELSE Value(v.reg, Variant(ref.val, tag, v.val))
        ELSE Error(ref.reg, "#" \o tag \o " isn't one of the valid tags")

(* context.recordExpr without Rest: the loop over x.Entries in map order   *)
(* ord from position i on, then the Record of the types gathered in ref.   *)
newEntries(r, c, entries, ord, i, ref, values) ==
    IF i > Len(ord)
    THEN LET typ == Record(r, ref) IN Value(typ.reg, RecordValue(typ.ref, values))
    ELSE IF entries[ord[i]] = Nil THEN newEntries(r, c, entries, ord, i + 1, ref, values)
    ELSE LET v == eval(r, c, entries[ord[i]], ord)
         IN  IF v.err # "" THEN v
             ELSE newEntries(v.reg, c, entries, ord, i + 1,
                             [ref EXCEPT ![ord[i]] = TypeOf(v.val)],
                             [values EXCEPT ![ord[i]] = v.val])

(* A loop over x.Entries that sets any value at a key of the base record. *)
spreadEntriesUntyped(r, c, entries, ord, i, other, values) ==
    IF i > Len(ord) THEN Value(r, RecordValue(other.typ, values))
    ELSE IF entries[ord[i]] = Nil
    THEN spreadEntriesUntyped(r, c, entries, ord, i + 1, other, values)
    ELSE LET v == eval(r, c, entries[ord[i]], ord)
         IN  IF v.err # "" THEN v
             ELSE IF GetRecord(v.reg, other.typ)[ord[i]] = Absent
             THEN Error(v.reg, NotInBase(ord[i]))
             ELSE spreadEntriesUntyped(v.reg, c, entries, ord, i + 1, other,
                                       [values EXCEPT ![ord[i]] = v.val])

(* context.recordExpr with Rest: the loop over x.Entries in map order ord  *)
(* from position i on; ref is the record type of other, values its clone.  *)
spreadEntries(r, c, entries, ord, i, other, values) ==
    IF i > Len(ord) THEN Value(r, RecordValue(other.typ, values))
    ELSE IF entries[ord[i]] = Nil THEN spreadEntries(r, c, entries, ord, i + 1, other, values)
    ELSE LET v == eval(r, c, entries[ord[i]], ord)
             typ == GetRecord(v.reg, other.typ)[ord[i]]
         IN  IF v.err # "" THEN v
             ELSE IF typ = Absent THEN Error(v.reg, NotInBase(ord[i]))
             ELSE IF TypeOf(v.val) # typ
             THEN Error(v.reg, ChangesType(v.reg, ord[i], typ, TypeOf(v.val)))
             ELSE spreadEntries(v.reg, c, entries, ord, i + 1, other,
                                [values EXCEPT ![ord[i]] = v.val])

(* context.listExpr: the loop over x.Elements from position i on. *)
listElements(r, c, elements, ord, i, typ, acc) ==
    IF i > Len(elements)
    THEN LET l == List(r, typ) IN Value(l.reg, ListValue(l.ref, acc))
    ELSE LET v == eval(r, c, elements[i], ord)
         IN  IF v.err # "" THEN v
             ELSE IF TypeOf(v.val) # typ /\ typ # NeverRef
             THEN Error(v.reg, "list elements must all be of type " \o String(v.reg, typ).out
                                   \o ", got " \o String(v.reg, TypeOf(v.val)).out)
             ELSE listElements(v.reg, c, elements, ord, i + 1, TypeOf(v.val),
                               Append(acc, v.val))

(* A loop over the alternatives that goes on after any error of Match. *)
matchAlternativesSkipping(r, f, a, ord, i) ==
    IF i > Len(f.alts) THEN Error(r, NoAlternative(f.source, a))
    ELSE LET m == Match(r, f.alts[i].Arg, a, ord)
         IN  IF m.err # "" THEN matchAlternativesSkipping(m.reg, f, a, ord, i + 1)
             ELSE eval(m.reg, sub(f.c, m.vars), f.alts[i].Body, ord)

(* The fn of the ScriptFunc createMatchFunc returns: the loop over the     *)
(* alternatives from position i on.                                        *)
matchAlternatives(r, f, a, ord, i) ==
    IF i > Len(f.alts) THEN Error(r, NoAlternative(f.source, a))
    ELSE LET m == Match(r, f.alts[i].Arg, a, ord)
         IN  IF m.err # ""
             THEN IF m.err = ErrNoMatch THEN matchAlternatives(m.reg, f, a, ord, i + 1)
                  ELSE Error(m.reg, m.err)
             ELSE eval(m.reg, sub(f.c, m.vars), f.alts[i].Body, ord)

(* fn(arg) for the fn of a ScriptFunc. *)
apply(r, f, arg, ord) ==
    IF f.kind = "func" THEN eval(r, sub(f.c, Binding(f.name, arg)), f.body, ord)
    ELSE IF f.kind = "round" THEN roundFunc(r, arg)
    ELSE matchAlternatives(r, f, arg, ord, 1)

(* context.eval with binary, call, where, recordExpr, listExpr, createFunc *)
(* and createMatchFunc.  Of the operators, + - * |> and :: are modelled.   *)
eval(r, c, x, ord) ==
    CASE x.k = "lit" -> Value(r, LiteralValue(x))
      [] x.k = "id" -> ident(r, c, x.Name)
      [] x.k = "bin" /\ x.Op \in {"ADD", "SUB", "MUL"} ->
            LET l == eval(r, c, x.Left, ord)
                rt == eval(l.reg, c, x.Right, ord)
            IN  IF l.err # "" THEN l
                ELSE IF l.val.k \in {"float", "int"}
                THEN IF rt.err # "" THEN rt
                     ELSE IF rt.val.k # l.val.k
                     THEN Error(rt.reg, "non-" \o l.val.k \o " value " \o ValueString(rt.val))
                     ELSE Value(rt.reg, [l.val EXCEPT !.v = binop(x.Op, l.val.v, rt.val.v)])
                ELSE Error(l.reg, "cannot perform addition on " \o String(l.reg, TypeOf(l.val)).out)
      [] x.k = "bin" /\ x.Op = "RPIPE" -> eval(r, c, CallExpr(x.Right, x.Left), ord)
      [] x.k = "bin" /\ x.Op = "PICK" -> pick(r, c, x, Nil, ord)
      [] x.k = "call" ->
            IF x.Fn.k = "bin" /\ x.Fn.Op = "PICK" THEN pick(r, c, x.Fn, x.Arg, ord)
            ELSE LET fn == eval(r, c, x.Fn, ord)
                     arg == eval(fn.reg, c, x.Arg, ord)
                 IN  IF fn.err # "" THEN fn
                     ELSE IF Callable(fn.val) = nil
                     THEN Error(fn.reg, "non-func value " \o ValueString(fn.val))
                     ELSE IF arg.err # "" THEN arg
                     ELSE apply(arg.reg, Callable(fn.val), arg.val, ord)
      [] x.k = "where" ->
            LET val == eval(r, c, x.Val, ord)
            IN  IF val.err # "" THEN val
                ELSE eval(val.reg, sub(c, Binding(x.Id.Name, val.val)), x.Expr, ord)
      [] x.k = "enum" -> enumVariants(r, c, x.Variants, EmptyMap, 1)
      [] x.k = "rec" ->
            IF x.Rest = Nil THEN newEntries(r, c, x.Entries, ord, 1, EmptyMap, NoValues)
            ELSE LET other == eval(r, c, x.Rest, ord)
                 IN  IF other.err # "" THEN other
                     ELSE IF other.val.k # "record"
                     THEN Error(other.reg, "non-record value " \o ValueString(other.val))
                     ELSE spreadEntries(other.reg, c, x.Entries, ord, 1, other.val,
                                        other.val.values)
      [] x.k = "list" -> listElements(r, c, x.Elements, ord, 1, NeverRef, <<>>)
      [] x.k = "fn" ->
            IF x.Arg.k # "id" THEN Error(r, "function parameter must be an identifier")
            ELSE Value(r, ScriptFunc(Source(x),
                          [kind |-> "func", name |-> x.Arg.Name, body |-> x.Body, c |-> c]))
      [] x.k = "match" ->
            Value(r, ScriptFunc(Source(x),
                     [kind |-> "match", alts |-> x.Alts, source |-> Source(x), c |-> c]))
      [] x.k = "import" -> evalImport(r, x.HashAlgo, x.Value, ord)
      [] OTHER -> Error(r, "unhandled node")

(* bindBuiltIns: the names of the built-in types. *)
builtIns == [NoVariables EXCEPT !["int"] = Type(IntRef)]

(* Eval(se, reg, vars) *)
Eval(r, x, ord) == eval(r, <<builtIns>>, x, ord)

(* Call(toCall, val) on the result of evaluating toCall *)
CallValue(toCall, val, ord) ==
    IF toCall.err # "" THEN toCall
    ELSE IF Callable(toCall.val) = nil
    THEN Error(toCall.reg, "non-func value " \o ValueString(toCall.val))
    ELSE apply(toCall.reg, Callable(toCall.val), val, ord)

----------------------------------------------------------------------------
(* Matching patterns against values, on the registry of one Environment.   *)

MaxMatchTypes == 3

Entries(a, b) == [key \in Keys |-> IF key = "a" THEN a ELSE b]

PatternAtoms == {Ident("a"), Ident("_"), Literal("int", 1), Literal("float", 1)}

Patterns ==
    {ListExpr(<<x, y>>) : x, y \in PatternAtoms}
    \cup {RecordExpr(Entries(x, y), rest) :
            x, y \in PatternAtoms \cup {Nil}, rest \in {Nil, Ident("a"), Literal("int", 1)}}
    \cup {ListExpr(<<Ident("a"), ListExpr(<<Ident("a")>>)>>),
          BinaryExpr(Ident("a"), "PREPEND", Ident("a")),
          BinaryExpr(Ident("a"), "APPEND", Ident("a")),
          BinaryExpr(ListExpr(<<Ident("a")>>), "CONCAT", Ident("a")),
          BinaryExpr(Ident("a"), "CONCAT", ListExpr(<<Ident("a")>>)),
          VariantExpr("a", ListExpr(<<Ident("a"), Ident("a")>>))}

(* The expressions whose values the patterns are matched against. *)
Matched ==
    {Literal("int", 1),
     ListExpr(<<Literal("int", 1)>>),
     ListExpr(<<Literal("int", 1), Literal("int", 2)>>),
     RecordExpr(Entries(Literal("int", 2), Nil), Nil),
     ListExpr(<<ListExpr(<<Literal("int", 1)>>), ListExpr(<<Literal("int", 1)>>)>>),
     RecordExpr(Entries(Literal("int", 2), Literal("int", 1)), Nil)}

InitMatch ==
    /\ reg = EmptyRegistry
    /\ last = NoOp
    /\ calls = {}
    /\ heap = <<>>
    /\ bound = <<>>
    /\ scraps = <<>>
    /\ files = <<>>

(* The Environment after an evaluation ended with res; its registry holds  *)
(* at most max types.                                                      *)
Ends(res, max, op) ==
    /\ Size(res.reg) <= max
    /\ reg' = res.reg
    /\ last' = op
    /\ UNCHANGED <<calls, heap, bound, scraps, files>>

Valued(res) == [op |-> "Value", val |-> res.val, err |-> res.err]
Matches(x, val, m) == [op |-> "Match", x |-> x, val |-> val, vars |-> m.vars, err |-> m.err]

(* The value evaluated becomes the value to match or to apply to next. *)
ValueOf(res, max) == Ends(res, max, Valued(res))

(* Eval of one of the Matched expressions: the value to match next. *)
DoValue ==
    \E of \in Matched, ord \in KeyOrders : ValueOf(Eval(reg, of, ord), MaxMatchTypes)

MatchEnds(x, m) == Ends(m, MaxMatchTypes, Matches(x, last.val, m))

(* Match(source, reg, x, val) for the value evaluated last *)
DoMatch ==
    /\ last.op = "Value"
    /\ \E x \in Patterns, ord \in KeyOrders : MatchEnds(x, Match(reg, x, last.val, ord))

NextMatch == DoValue \/ DoMatch

SpecMatch == InitMatch /\ [][NextMatch]_vars

(* The number of times name occurs in pattern x as a name to bind. *)
RECURSIVE Occurrences(_, _)
RECURSIVE SumOccurrences(_, _, _)

SumOccurrences(xs, name, i) ==
    IF i > Len(xs) THEN 0 ELSE Occurrences(xs[i], name) + SumOccurrences(xs, name, i + 1)

Occurrences(x, name) ==
    CASE x.k = "id" -> IF x.Name = name THEN 1 ELSE 0
      [] x.k = "list" -> SumOccurrences(x.Elements, name, 1)
      [] x.k = "rec" ->
            Occurrences(x.Entries["a"], name) + Occurrences(x.Entries["b"], name)
                + Occurrences(x.Rest, name)
      [] x.k = "bin" -> Occurrences(x.Left, name) + Occurrences(x.Right, name)
      [] x.k = "variant" -> Occurrences(x.Typ, name)
      [] OTHER -> 0

DupNames(x) == {name \in Names : Occurrences(x, name) >= 2}

(* val has the shape pattern x describes: a list of the same length where *)
(* x is a list, a record holding every key x lists where x is a record, a *)
(* variant of the same tag where x is a variant, and so on for the parts;  *)
(* x has no float literal and no list operator.                            *)
RECURSIVE Shaped(_, _)

Shaped(x, val) ==
    CASE x.k = "id" -> TRUE
      [] x.k = "lit" -> x.Kind # "float"
      [] x.k = "list" ->
            /\ val.k = "list"
            /\ Len(val.elements) = Len(x.Elements)
            /\ \A i \in 1..Len(x.Elements) : Shaped(x.Elements[i], val.elements[i])
      [] x.k = "rec" ->
            /\ val.k = "record"
            /\ \A key \in Keys :
                  x.Entries[key] # Nil =>
                      val.values[key] # missing /\ Shaped(x.Entries[key], val.values[key])
            /\ x.Rest # Nil =>
                  Shaped(x.Rest, RecordValue(NeverRef, withoutEntries(val.values, x.Entries, missing)))
      [] x.k = "variant" ->
            val.k = "variant" /\ val.tag = x.Tag /\ x.Typ # Nil /\ Shaped(x.Typ, val.value)
      [] OTHER -> FALSE

----------------------------------------------------------------------------
(* Applying match-lambdas to values, on the registry of one Environment.   *)

MaxApplyTypes == 2

(* The value an alternative returns names its position. *)
Alt(x, i) == FuncExpr(x, Literal("int", 10 * i))

AltPatterns ==
    {Literal("int", 1), Ident("a"), ListExpr(<<Ident("a"), Ident("a")>>),
     ListExpr(<<Ident("_"), Literal("int", 2)>>), Literal("float", 1),
     RecordExpr(Entries(Nil, Ident("a")), Nil), RecordExpr(Entries(Ident("a"), Nil), Nil)}

MatchFuncs ==
    {MatchFuncExpr(<<Alt(x, 1)>>) : x \in AltPatterns}
    \cup {MatchFuncExpr(<<Alt(x, 1), Alt(y, 2)>>) : x, y \in AltPatterns}
    \cup {MatchFuncExpr(<<Alt(x, 1), Alt(y, 2), Alt(z, 3)>>) :
            x, y, z \in {Literal("int", 1), Ident("a"), ListExpr(<<Ident("a"), Ident("a")>>)}}
    \cup {MatchFuncExpr(<<FuncExpr(Literal("int", 1), Ident("a")), FuncExpr(Ident("a"), Ident("a"))>>)}

Applied ==
    {Literal("int", 1), Literal("int", 2),
     ListExpr(<<Literal("int", 1), Literal("int", 2)>>),
     RecordExpr(Entries(Literal("int", 2), Nil), Nil)}

(* Eval of one of the Applied expressions: the value to apply to next. *)
DoArgument ==
    \E of \in Applied, ord \in KeyOrders : ValueOf(Eval(reg, of, ord), MaxApplyTypes)

Applies(x, a, res) == [op |-> "Apply", x |-> x, a |-> a, val |-> res.val, err |-> res.err]

ApplyEnds(x, res) == Ends(res, MaxApplyTypes, Applies(x, last.val, res))

(* scrap eval apply: Eval of the match-lambda x, then Call of its value on *)
(* the value evaluated last                                                *)
DoApply ==
    /\ last.op = "Value"
    /\ \E x \in MatchFuncs, ord \in KeyOrders :
          ApplyEnds(x, CallValue(Eval(reg, x, ord), last.val, ord))

NextApply == DoArgument \/ DoApply

SpecApply == InitMatch /\ [][NextApply]_vars

(* The end of matching alternative i of the match-lambda applied last. *)
Tried(i) == Match(reg, last.x.Alts[i].Arg, last.a, SortedKeys)

(* The first alternative whose match does not end with no match found. *)
Decides(i) == Tried(i).err # ErrNoMatch /\ \A j \in 1..(i - 1) : Tried(j).err = ErrNoMatch

(* C8: the alternatives are tried in source order: the call returns what   *)
(* the body of the first matching alternative evaluates to, reports no     *)
(* alternative when every match ends with no match found, and returns the  *)
(* first other error of a match without trying the alternatives after it.  *)
C8_FirstAlternative ==
    last.op = "Apply" =>
        /\ \A i \in 1..Len(last.x.Alts) :
              Decides(i) =>
                  IF Tried(i).err # "" THEN last.err = Tried(i).err
                  ELSE LET body == eval(reg, <<builtIns, Tried(i).vars>>, last.x.Alts[i].Body, SortedKeys)
                       IN  last.err = body.err /\ last.val = body.val
        /\ (\A i \in 1..Len(last.x.Alts) : Tried(i).err = ErrNoMatch) =>
              last.err = NoAlternative(Source(last.x), last.a)

(* A match ended with cannot bind a twice after an alternative that did    *)
(* not match and before one that matches, and the call returned that error.*)
C8_ErrorStops ==
    /\ last.op = "Apply"
    /\ Len(last.x.Alts) = 3
    /\ Tried(1).err = ErrNoMatch
    /\ Tried(2).err = BoundTwice("a")
    /\ Tried(3).err = ""
    /\ last.err = BoundTwice("a")

----------------------------------------------------------------------------
(* Evaluating programs on the registry of one Environment.                 *)

MaxSpreadTypes == 3

Evaluated(prog, res) == [op |-> "Eval", prog |-> prog, val |-> res.val, err |-> res.err]

EvalEnds(prog, res, max) == Ends(res, max, Evaluated(prog, res))

(* Environment.Eval of one of progs, while the registry holds at most max  *)
(* types.                                                                  *)
EvalOneOf(progs, max) ==
    \E prog \in progs, ord \in KeyOrders : EvalEnds(prog, Eval(reg, prog, ord), max)

(* { ..r, a = v, b = w } for the records r and the values v and w below.  *)
Bases ==
    {RecordExpr(NoEntries, Nil),
     RecordExpr(Entries(Literal("int", 1), Nil), Nil),
     RecordExpr(Entries(Literal("int", 1), Literal("text", "x")), Nil),
     RecordExpr(Entries(ListExpr(<<Literal("int", 1)>>), Literal("int", 1)), Nil),
     RecordExpr(Entries(Literal("int", 3), Nil), RecordExpr(Entries(Literal("int", 1), Nil), Nil)),
     Literal("int", 1)}

Listed ==
    {Nil, Literal("int", 2), Literal("text", "y"), ListExpr(<<Literal("int", 2)>>),
     ListExpr(<<>>), Ident("x")}

Spreads == {RecordExpr(Entries(v, w), r) : v, w \in Listed, r \in Bases}

DoSpread == EvalOneOf(Spreads, MaxSpreadTypes)

SpecSpread == InitMatch /\ [][DoSpread]_vars

(* The record r the program evaluated last is based on, and the value of   *)
(* the expression it lists at key.                                         *)
Base == Eval(reg, last.prog.Rest, SortedKeys)
ListedAt(key) == Eval(reg, last.prog.Entries[key], SortedKeys)
ListedKeys == {key \in Keys : last.prog.Entries[key] # Nil}

----------------------------------------------------------------------------
(* Programs that bind names in where-clauses, functions and patterns.      *)

MaxScopeTypes == 2

ScopeNames == {"a", "b", "x"}

Where(expr, name, val) == WhereExpr(expr, Ident(name), Nil, val)

(* f 1 ; n = 2 ; f = p -> u *)
AtCallSite(n, p, u) ==
    Where(Where(CallExpr(Ident("f"), Literal("int", 1)), n, Literal("int", 2)),
          "f", FuncExpr(Ident(p), Ident(u)))

(* f 1 ; f = p -> u ; n = 2 *)
AtDefinition(n, p, u) ==
    Where(Where(CallExpr(Ident("f"), Literal("int", 1)), "f", FuncExpr(Ident(p), Ident(u))),
          n, Literal("int", 2))

(* u ; n = 1 ; m = 2 *)
Nested(n, m, u) == Where(Where(Ident(u), n, Literal("int", 1)), m, Literal("int", 2))

(* e : #a int #b *)
TagsAB == EnumExpr(<<VariantExpr("a", Ident("int")), VariantExpr("b", Nil)>>)

PickA == CallExpr(BinaryExpr(Ident("e"), "PICK", Ident("a")), Literal("int", 7))
PickB == BinaryExpr(Ident("e"), "PICK", Ident("b"))

(* v |> | #a p -> u | #b p -> u ; e : #a int #b ; n = 5 *)
InPattern(v, n, p, u) ==
    Where(Where(BinaryExpr(v, "RPIPE",
                           MatchFuncExpr(<<FuncExpr(VariantExpr("a", Ident(p)), Ident(u)),
                                           FuncExpr(VariantExpr("b", Ident(p)), Ident(u))>>)),
                "e", TagsAB),
          n, Literal("int", 5))

Scoped ==
    {AtCallSite(n, p, u) : n, p, u \in ScopeNames}
    \cup {AtDefinition(n, p, u) : n, p, u \in ScopeNames}
    \cup {Nested(n, m, u) : n, m, u \in ScopeNames}
    \cup {InPattern(v, n, p, u) : v \in {PickA, PickB}, n, p, u \in ScopeNames}

DoScoped == EvalOneOf(Scoped, MaxScopeTypes)

SpecScope == InitMatch /\ [][DoScoped]_vars

Returned(val) == last.err = "" /\ last.val = val
Unknown(name) == last.err = UnknownVariable(name)

(* C10: a name stands for its innermost enclosing binding, and the body of *)
(* a function sees the bindings that enclose its definition and its        *)
(* parameter only: a where-clause at the call site is not visible in it,   *)
(* and the name a pattern binds is not taken from a clause further out.    *)
C10_LexicalScoping ==
    last.op = "Eval" =>
        \A n, p, u \in ScopeNames :
            /\ last.prog = AtCallSite(n, p, u) =>
                  IF u = p THEN Returned(IntValue(1)) ELSE Unknown(u)
            /\ last.prog = AtDefinition(n, p, u) =>
                  IF u = p THEN Returned(IntValue(1))
                  ELSE IF u = n THEN Returned(IntValue(2)) ELSE Unknown(u)
            /\ last.prog = Nested(n, p, u) =>
                  IF u = n THEN Returned(IntValue(1))
                  ELSE IF u = p THEN Returned(IntValue(2)) ELSE Unknown(u)
            /\ last.prog = InPattern(PickA, n, p, u) =>
                  IF u = p THEN Returned(IntValue(7))
                  ELSE IF u = n THEN Returned(IntValue(5)) ELSE Unknown(u)
            /\ last.prog = InPattern(PickB, n, p, u) =>
                  IF u = p THEN ~Returned(IntValue(5))
                  ELSE IF u = n THEN Returned(IntValue(5)) ELSE Unknown(u)

(* The part of C10 on where-clauses and functions. *)
C10_WhereAndFunctions ==
    last.op = "Eval" =>
        \A n, p, u \in ScopeNames :
            /\ last.prog = AtCallSite(n, p, u) =>
                  IF u = p THEN Returned(IntValue(1)) ELSE Unknown(u)
            /\ last.prog = AtDefinition(n, p, u) =>
                  IF u = p THEN Returned(IntValue(1))
                  ELSE IF u = n THEN Returned(IntValue(2)) ELSE Unknown(u)
            /\ last.prog = Nested(n, p, u) =>
                  IF u = n THEN Returned(IntValue(1))
                  ELSE IF u = p THEN Returned(IntValue(2)) ELSE Unknown(u)
            /\ last.prog = InPattern(PickA, n, p, u) =>
                  IF u = p THEN Returned(IntValue(7))
                  ELSE IF u = n THEN Returned(IntValue(5)) ELSE Unknown(u)

----------------------------------------------------------------------------
(* Lists as the evaluator holds them: a List value is a type and a Go      *)
(* slice, a window of len cells at the start of a backing array of cap     *)
(* cells that other slices may share.                                      *)

MaxArrays == 5
MaxBound == 4
MaxAppendTypes == 4

Slice(arr, len) == [arr |-> arr, len |-> len]
Elements(h, s) == SubSeq(h[s.arr], 1, s.len)
Cap(h, s) == Len(h[s.arr])

(* The elements of a List value. *)
ElementsOf(h, ls) == Elements(h, ls.elements)

(* The capacity append's reallocation chooses for a slice of small cells. *)
growslice(oldCap, needed) == IF needed > 2 * oldCap THEN needed ELSE 2 * oldCap

Spare(n) == [i \in 1..n |-> nil]

(* make([]Value, n) filled in, and the literal []Value{l}: a new array *)
makeSlice(h, xs) == [heap |-> Append(h, xs), slice |-> Slice(Len(h) + 1, Len(xs))]

(* append(s, xs...): the cells after s are written when the array has     *)
(* room for them; otherwise the elements move to a new, larger array.      *)
appendSlice(h, s, xs) ==
    IF s.len + Len(xs) <= Cap(h, s)
    THEN [heap |-> [h EXCEPT ![s.arr] =
                       [i \in 1..Len(@) |->
                           IF i > s.len /\ i <= s.len + Len(xs) THEN xs[i - s.len] ELSE @[i]]],
          slice |-> Slice(s.arr, s.len + Len(xs))]
    ELSE [heap |-> Append(h, Elements(h, s) \o xs
                              \o Spare(growslice(Cap(h, s), s.len + Len(xs)) - s.len - Len(xs))),
          slice |-> Slice(Len(h) + 1, s.len + Len(xs))]

ListResult(r, typ, made) ==
    [reg |-> List(r, typ).reg, heap |-> made.heap,
     val |-> ListValue(List(r, typ).ref, made.slice), err |-> ""]
Fails(r, h, msg) == [reg |-> r, heap |-> h, val |-> nil, err |-> msg]

(* context.listExpr over literal elements *)
listExpr(r, h, xs) ==
    LET types == {TypeOf(xs[i]) : i \in DOMAIN xs}
    IN  IF Cardinality(types) > 1
        THEN Fails(r, h, "list elements must all be of type " \o String(r, TypeOf(xs[1])).out)
        ELSE ListResult(r, IF xs = <<>> THEN NeverRef ELSE TypeOf(xs[1]), makeSlice(h, xs))

(* context.binary, token.APPEND, on the values of its operands *)
binaryAppend(r, h, l, rt) ==
    IF l.k # "list" THEN Fails(r, h, "cannot append to non-list " \o l.k)
    ELSE IF TypeOf(rt) # GetList(r, l.typ) /\ GetList(r, l.typ) # NeverRef
    THEN Fails(r, h, "cannot append " \o String(r, TypeOf(rt)).out
                         \o " to " \o String(r, l.typ).out)
    ELSE ListResult(r, TypeOf(rt), appendSlice(h, l.elements, <<rt>>))

(* context.binary, token.PREPEND: an empty list on the right gives the     *)
(* result the type of that list, r.Type(), as its element type.           *)
binaryPrepend(r, h, l, rt) ==
    IF rt.k # "list" THEN Fails(r, h, "cannot prepend to non-list " \o rt.k)
    ELSE IF TypeOf(l) # GetList(r, rt.typ) /\ GetList(r, rt.typ) # NeverRef
    THEN Fails(r, h, "cannot prepend " \o String(r, TypeOf(l)).out
                         \o " to " \o String(r, rt.typ).out)
    ELSE ListResult(r, IF TypeOf(l) = GetList(r, rt.typ) THEN GetList(r, rt.typ) ELSE TypeOf(rt),
                 appendSlice(makeSlice(h, <<l>>).heap, makeSlice(h, <<l>>).slice,
                             Elements(h, rt.elements)))

(* context.binary, token.CONCAT, on two lists: the result takes the type  *)
(* of the left list, or of the right one when the left is a list of never. *)
binaryConcat(r, h, l, rt) ==
    IF l.k # "list" THEN Fails(r, h, "cannot append to non-list " \o l.k)
    ELSE IF rt.k # "list" THEN Fails(r, h, "non-list value")
    ELSE IF l.typ # rt.typ /\ GetList(r, l.typ) # NeverRef /\ GetList(r, rt.typ) # NeverRef
    THEN Fails(r, h, "cannot concat " \o String(r, l.typ).out \o " to " \o String(r, rt.typ).out)
    ELSE [reg |-> r, heap |-> appendSlice(h, l.elements, Elements(h, rt.elements)).heap,
          val |-> ListValue(IF l.typ # rt.typ /\ GetList(r, l.typ) = NeverRef
                            THEN rt.typ ELSE l.typ,
                            appendSlice(h, l.elements, Elements(h, rt.elements)).slice),
          err |-> ""]

binary(r, h, op, l, rt) ==
    CASE op = "APPEND" -> binaryAppend(r, h, l, rt)
      [] op = "PREPEND" -> binaryPrepend(r, h, l, rt)
      [] op = "CONCAT" -> binaryConcat(r, h, l, rt)

(* The literals of the programs. *)
Operands == {IntValue(4), IntValue(5), TextValue("t")}
ListLiterals == {<<>>, <<IntValue(1)>>, <<IntValue(1), IntValue(2)>>}

InitAppend ==
    /\ reg = EmptyRegistry
    /\ last = NoOp
    /\ calls = {}
    /\ heap = <<>>
    /\ bound = <<>>
    /\ scraps = <<>>
    /\ files = <<>>

Operated(op, l, rt, res) == [op |-> op, left |-> l, right |-> rt, val |-> res.val, err |-> res.err]

(* name = <expression> in a where clause: the value is bound when the      *)
(* expression evaluated without an error.                                  *)
Binds(res, op) ==
    /\ Size(res.reg) <= MaxAppendTypes
    /\ Len(res.heap) <= MaxArrays
    /\ reg' = res.reg
    /\ heap' = res.heap
    /\ bound' = IF res.err = "" THEN Append(bound, res.val) ELSE bound
    /\ last' = op
    /\ UNCHANGED <<calls, scraps, files>>

BindsList(xs, res) == Binds(res, Operated("list", xs, nil, res))
BindsBinary(op, l, rt, res) == Binds(res, Operated(op, l, rt, res))

(* ; name = [ ... ] *)
DoListExpr ==
    /\ Len(bound) < MaxBound
    /\ \E xs \in ListLiterals : BindsList(xs, listExpr(reg, heap, xs))

(* ; name = ys +< x, for a bound list ys and a literal x *)
DoAppend ==
    /\ Len(bound) < MaxBound
    /\ \E i \in DOMAIN bound, x \in Operands :
          BindsBinary("APPEND", bound[i], x, binary(reg, heap, "APPEND", bound[i], x))

(* ; name = x >+ ys *)
DoPrepend ==
    /\ Len(bound) < MaxBound
    /\ \E i \in DOMAIN bound, x \in Operands :
          BindsBinary("PREPEND", x, bound[i], binary(reg, heap, "PREPEND", x, bound[i]))

(* ; name = ys ++ zs *)
DoConcat ==
    /\ Len(bound) < MaxBound
    /\ \E i \in DOMAIN bound, j \in DOMAIN bound :
          BindsBinary("CONCAT", bound[i], bound[j],
                      binary(reg, heap, "CONCAT", bound[i], bound[j]))

NextAppend == DoListExpr \/ DoAppend \/ DoPrepend \/ DoConcat

SpecAppend == InitAppend /\ [][NextAppend]_vars

(***************************************************************************)
(* C11: values are immutable.  No step of  +<,  >+  or  ++  changes the    *)
(* elements of a list that was bound before the step: each bound list      *)
(* holds after the step the elements it held before it.                    *)
(***************************************************************************)
C11_Immutable ==
    [][\A i \in DOMAIN bound : ElementsOf(heap', bound[i]) = ElementsOf(heap, bound[i])]_vars

(* ys = [ 1, 2 ] +< x ; then ys +< 4 and ys +< 5: the first result ends   *)
(* in 5 once the second exists.                                            *)
C11_SecondAppendWins ==
    /\ Len(bound) = 4
    /\ last.op = "APPEND" /\ last.err = "" /\ last.right = IntValue(5) /\ last.left = bound[2]
    /\ ElementsOf(heap, bound[3]) = ElementsOf(heap, bound[2]) \o <<IntValue(5)>>
    /\ ElementsOf(heap, bound[4]) = ElementsOf(heap, bound[3])

(***************************************************************************)
(* C12: prepending or appending a value x to the empty list gives a list  *)
(* whose type is List(type of x).                                         *)
(***************************************************************************)
EmptyList(val) == val.k = "list" /\ val.elements.len = 0

C12_ListOfOperand ==
    /\ (last.op = "APPEND" /\ last.err = "" /\ EmptyList(last.left)) =>
          List(reg, TypeOf(last.right)) = [reg |-> reg, ref |-> last.val.typ]
    /\ (last.op = "PREPEND" /\ last.err = "" /\ EmptyList(last.right)) =>
          List(reg, TypeOf(last.left)) = [reg |-> reg, ref |-> last.val.typ]

----------------------------------------------------------------------------
(* list/fold.  The built-in is three nested Go closures: the outermost     *)
(* takes acc, the next takes the function, the innermost takes the list    *)
(* and assigns to acc, the parameter of the outermost, in its loop.  The   *)
(* captured acc is a cell of the heap that the three closures share.       *)

MaxFolds == 2
MaxAcc == 12

FoldFunc(cell, fn) == [kind |-> "fold", acc |-> cell, fn |-> fn]

RECURSIVE foldElements(_, _, _, _, _, _, _)

(* acc, err = fn2(v): acc is assigned whatever fn2 returned *)
foldAssigned(h, cell, fn, elements, ord, i, acc) ==
    IF acc.err # "" THEN Fails(acc.reg, [h EXCEPT ![cell] = acc.val], acc.err)
    ELSE foldElements(acc.reg, [h EXCEPT ![cell] = acc.val], cell, fn, elements, ord, i + 1)

(* mid, err = fn(acc); fn2 := Callable(mid) *)
foldPartial(h, cell, fn, elements, ord, i, mid) ==
    IF mid.err # "" THEN Fails(mid.reg, h, mid.err)
    ELSE IF Callable(mid.val) = nil
    THEN Fails(mid.reg, h, "needed function, but got " \o elements[i].k)
    ELSE foldAssigned(h, cell, fn, elements, ord, i,
                      apply(mid.reg, Callable(mid.val), elements[i], ord))

(* for _, v := range ls.elements { ... }; return acc, nil *)
foldElements(r, h, cell, fn, elements, ord, i) ==
    IF i > Len(elements) THEN [reg |-> r, heap |-> h, val |-> h[cell], err |-> ""]
    ELSE foldPartial(h, cell, fn, elements, ord, i, apply(r, fn, h[cell], ord))

(* list/fold acc val: the first two closures.  Each call of the built-in  *)
(* has its own acc.                                                        *)
listFold(r, h, acc, val) ==
    IF Callable(val) = nil THEN Fails(r, h, "needed function, but got " \o val.k)
    ELSE [reg |-> r, heap |-> Append(h, acc),
          val |-> ScriptFunc("list/fold " \o ValueString(acc) \o " " \o ValueString(val),
                             FoldFunc(Len(h) + 1, Callable(val))),
          err |-> ""]

(* The innermost closure, applied to val. *)
applyFold(r, h, g, val, ord) ==
    IF val.k # "list" THEN Fails(r, h, "expected list, but got " \o val.k)
    ELSE foldElements(r, h, g.acc, g.fn, val.elements, ord, 1)

Add == FuncExpr(Ident("a"), FuncExpr(Ident("b"), BinaryExpr(Ident("a"), "ADD", Ident("b"))))
Mul == FuncExpr(Ident("a"), FuncExpr(Ident("b"), BinaryExpr(Ident("a"), "MUL", Ident("b"))))
Second == FuncExpr(Ident("a"), FuncExpr(Ident("b"), Ident("b")))
Same == FuncExpr(Ident("a"), Ident("a"))

Folders == {Add, Mul, Second, Same}
Inits == {Literal("int", 0), Literal("int", 1)}
Folded ==
    {ListExpr(<<>>), ListExpr(<<Literal("int", 1)>>),
     ListExpr(<<Literal("int", 1), Literal("int", 2)>>), Literal("int", 1)}

FoldCall(init, f, val) == [op |-> "list/fold", init |-> init, f |-> f, val |-> val]
FoldApplied(g, arg, res) == [op |-> "fold", g |-> g, arg |-> arg, val |-> res.val, err |-> res.err]

(* ; g = list/fold init f *)
BindsFold(init, f, res) ==
    /\ res.err = ""
    /\ reg' = res.reg
    /\ heap' = res.heap
    /\ bound' = Append(bound, res.val)
    /\ calls' = calls \cup {FoldCall(init.val, f.val, res.val)}
    /\ last' = FoldCall(init.val, f.val, res.val)
    /\ UNCHANGED <<scraps, files>>

FoldOf(init, f) == BindsFold(init, f, listFold(f.reg, heap, init.val, f.val))

DoFold ==
    /\ Len(bound) < MaxFolds
    /\ \E init \in Inits, f \in Folders, ord \in KeyOrders :
          FoldOf(Eval(reg, init, ord), Eval(reg, f, ord))

(* g xs, for a bound g *)
FoldEnds(g, arg, res) ==
    /\ \A i \in DOMAIN res.heap : res.heap[i].k = "int" => res.heap[i].v <= MaxAcc
    /\ reg' = res.reg
    /\ heap' = res.heap
    /\ last' = FoldApplied(g, arg, res)
    /\ UNCHANGED <<calls, bound, scraps, files>>

FoldOver(g, arg, ord) == FoldEnds(g, arg.val, applyFold(arg.reg, heap, Callable(g), arg.val, ord))

DoApplyFold ==
    \E i \in DOMAIN bound, xs \in Folded, ord \in KeyOrders :
        FoldOver(bound[i], Eval(reg, xs, ord), ord)

NextFold == DoFold \/ DoApplyFold

SpecFold == InitAppend /\ [][NextFold]_vars

RECURSIVE LeftFold(_, _, _, _, _)
(* f(...f(f(init, x1), x2)..., xn) *)
LeftFold(r, f, acc, elements, i) ==
    IF i > Len(elements) THEN acc
    ELSE LeftFold(r, f,
                  apply(r, Callable(apply(r, Callable(f), acc, <<"a", "b">>).val),
                        elements[i], <<"a", "b">>).val,
                  elements, i + 1)

(***************************************************************************)
(* C13: every application of  list/fold init f  to a list returns the     *)
(* left fold of the list that starts from init.                           *)
(***************************************************************************)
C13_FoldFromInit ==
    (last.op = "fold" /\ last.err = "") =>
        \A c \in calls :
            c.val = last.g => last.val = LeftFold(reg, c.f, c.init, last.arg.elements, 1)

----------------------------------------------------------------------------
(* The Environment: one registry, the built-ins, the scraps read so far    *)
(* and a fetcher.  While a call of the Environment runs, the model holds   *)
(* it as one record e: the fields of its registry, on which the operators  *)
(* of the registry act, and beside them                                    *)
(*   scraps   Environment.scraps, from sha256 key to Scrap,                *)
(*   files    what the fetcher serves, from key to script,                 *)
(*   fetched  the calls of fetcher.FetchSha256 made by this call,          *)
(*   ran      the calls of Eval and of types.Infer made by this call,      *)
(*   stack    the calls of Environment.Eval and infer that are open.       *)
(* A script is its parsed expression; parsing is not modelled.             *)

MaxEnvVars == 4
MaxEnvTypes == 4
MaxScraps == 3
MaxNesting == 3

Scrap(expr) == [expr |-> expr, typ |-> NeverRef, value |-> nil]

Import(key) == ImportExpr("sha256", key)

(* The scripts of the model and their sha256 keys. *)
ScriptId == FuncExpr(Ident("a"), Ident("a"))
ScriptOne == Literal("int", 1)
ScriptUseInt == CallExpr(Import("id"), Literal("int", 1))
ScriptUseText == CallExpr(Import("id"), Literal("text", ""))
ScriptBoth ==
    RecordExpr([key \in Keys |->
                   CallExpr(Import("id"), Literal(IF key = "a" THEN "int" ELSE "text", 1))], Nil)
ScriptSum == BinaryExpr(Literal("int", 3), "ADD", Import("one"))
ScriptRound == CallExpr(Ident("round"), Literal("int", 1))
ScriptSelf == Import("served")
ScriptTwice == BinaryExpr(Import("alias"), "ADD", Import("alias"))

Scripts ==
    {ScriptId, ScriptOne, ScriptUseInt, ScriptUseText, ScriptBoth, ScriptSum, ScriptRound,
     ScriptSelf}

(* fmt.Sprintf("%x", sha256.Sum256(script)): no two scripts share a key. *)
Sha256(script) ==
    CASE script = ScriptId -> "id"
      [] script = ScriptOne -> "one"
      [] script = ScriptUseInt -> "useInt"
      [] script = ScriptUseText -> "useText"
      [] script = ScriptBoth -> "both"
      [] script = ScriptSum -> "sum"
      [] script = ScriptRound -> "round"
      [] script = ScriptSelf -> "self"
      [] script = ScriptTwice -> "twice"

(* What the fetcher serves: every script under its own key and, as a      *)
(* fetcher that does not validate can, ScriptSelf under a key that is not  *)
(* its hash and that ScriptSelf imports.                                   *)
Served ==
    [key \in {Sha256(script) : script \in Scripts} \cup {"served"} |->
        IF key = "served" THEN ScriptSelf ELSE CHOOSE script \in Scripts : Sha256(script) = key]

ErrNotFound == "no scrap found"

RegistryOf(e) == [f \in DOMAIN EmptyRegistry |-> e[f]]
Environment(r, sc, fs) == r @@ [scraps |-> sc, files |-> fs, fetched |-> 0, ran |-> 0, stack |-> 0]

(* bindBuiltIns: round : float -> int *)
RoundRef == Func(EmptyRegistry, FloatRef, IntRef).ref
EnvTypeScope == Bind(<<>>, "round", RoundRef)
EnvVars == [builtIns EXCEPT !["round"] = BuiltInFunc("round", RoundRef, [kind |-> "round"])]

Put(map, key, val) == [k \in DOMAIN map \cup {key} |-> IF k = key THEN val ELSE map[k]]

(* Environment.Read: a new Scrap under the hash of the script *)
Read(e, script) ==
    [reg |-> [e EXCEPT !.scraps = Put(@, Sha256(script), Scrap(script))],
     key |-> Sha256(script), err |-> ""]

(* Environment.fetch: the scrap held under the key or else the scrap read  *)
(* from what the fetcher returns for the key.                              *)
fetch(e, algo, key) ==
    IF algo # "sha256"
    THEN [reg |-> e, key |-> "", err |-> "only sha256 imports are supported"]
    ELSE IF key \in DOMAIN e.scraps THEN [reg |-> e, key |-> key, err |-> ""]
    ELSE IF key \notin DOMAIN e.files
    THEN [reg |-> [e EXCEPT !.fetched = @ + 1], key |-> "", err |-> ErrNotFound]
    ELSE Read([e EXCEPT !.fetched = @ + 1], e.files[key])

(* types.Infer: ref is assigned when context.infer returns, and a bail    *)
(* leaves it NeverRef.                                                     *)
Recovered(res) == IF res.err # "" THEN [res EXCEPT !.ref = NeverRef] ELSE res

(* scrap.typ = ref; return ref, err *)
inferred(key, res) ==
    [reg |-> [res.reg EXCEPT !.scraps[key].typ = res.ref, !.stack = @ - 1],
     ref |-> res.ref, err |-> res.err]

(* Environment.infer.  The Go stack is finite: a call nested deeper than   *)
(* MaxNesting ends the process with a stack overflow.                      *)
envInfer(e, key, ord) ==
    IF e.scraps[key].typ # NeverRef THEN Typed(e, e.scraps[key].typ)
    ELSE IF e.stack >= MaxNesting THEN bail(e, ErrStackOverflow)
    ELSE inferred(key, Recovered(infer([e EXCEPT !.stack = @ + 1, !.ran = @ + 1],
                                       EnvTypeScope, e.scraps[key].expr, ord)))

inferFetched(f, ord) == IF f.err # "" THEN bail(f.reg, f.err) ELSE envInfer(f.reg, f.key, ord)

(* env.inferImport, and context.infer's failure without one *)
inferImport(r, algo, key, ord) ==
    IF "scraps" \notin DOMAIN r
    THEN bail(r, "<internal error> missing infer import function")
    ELSE inferFetched(fetch(r, algo, key), ord)

(* scrap.value = value; return value, err *)
evaluated(key, res) ==
    [reg |-> [res.reg EXCEPT !.scraps[key].value = res.val, !.stack = @ - 1],
     val |-> res.val, err |-> res.err]

(* Environment.Eval *)
envEval(e, key, ord) ==
    IF e.scraps[key].value # nil THEN Value(e, e.scraps[key].value)
    ELSE IF e.stack >= MaxNesting THEN Error(e, ErrStackOverflow)
    ELSE evaluated(key, eval([e EXCEPT !.stack = @ + 1, !.ran = @ + 1], <<EnvVars>>,
                             e.scraps[key].expr, ord))

evalFetched(f, ord) == IF f.err # "" THEN Error(f.reg, f.err) ELSE envEval(f.reg, f.key, ord)

(* env.evalImport, and context.eval's failure without one *)
evalImport(r, algo, key, ord) ==
    IF "scraps" \notin DOMAIN r THEN Error(r, "missing eval import function")
    ELSE evalFetched(fetch(r, algo, key), ord)

InitEnv ==
    /\ reg = Func(EmptyRegistry, FloatRef, IntRef).reg
    /\ last = NoOp
    /\ calls = {}
    /\ heap = <<>>
    /\ bound = <<>>
    /\ scraps = <<>>
    /\ files = Served

EnvOp(op, key, res) ==
    [op |-> op, key |-> key, err |-> res.err, fetched |-> res.reg.fetched, ran |-> res.reg.ran,
     val |-> IF op = "Eval" THEN res.val ELSE nil,
     ref |-> IF op = "infer" THEN res.ref ELSE NeverRef]

(* The Environment after a call ended with res. *)
EnvEnds(op, key, res) ==
    /\ Len(res.reg.vars) <= MaxEnvVars
    /\ Size(res.reg) <= MaxEnvTypes
    /\ Cardinality(DOMAIN res.reg.scraps) <= MaxScraps
    /\ reg' = RegistryOf(res.reg)
    /\ scraps' = res.reg.scraps
    /\ last' = EnvOp(op, key, res)
    /\ UNCHANGED <<calls, heap, bound, files>>

(* scrap, err := env.Read(script), for a script not read before *)
DoRead ==
    \E script \in Scripts :
        /\ Sha256(script) \notin DOMAIN scraps
        /\ EnvEnds("Read", Sha256(script), Read(Environment(reg, scraps, files), script))

(* env.infer(scrap), for a scrap that Read returned *)
DoInferScrap ==
    \E key \in DOMAIN scraps, ord \in KeyOrders :
        EnvEnds("infer", key, envInfer(Environment(reg, scraps, files), key, ord))

(* env.Eval(scrap) *)
DoEvalScrap ==
    \E key \in DOMAIN scraps, ord \in KeyOrders :
        EnvEnds("Eval", key, envEval(Environment(reg, scraps, files), key, ord))

NextEnv == DoRead \/ DoInferScrap \/ DoEvalScrap

SpecEnv == InitEnv /\ [][NextEnv]_vars

(***************************************************************************)
(* C14: the type an import yields is fresh for each import.  A scrap that  *)
(* uses the imported  a -> a  at int, at text, or at both in one program,  *)
(* is inferred without an error whatever was inferred before.              *)
(***************************************************************************)
C14_FreshPerImport ==
    (last.op = "infer" /\ last.key \in {"useInt", "useText", "both"}) => last.err = ""

(***************************************************************************)
(* C15: inference and evaluation end when the import graph has a cycle:    *)
(* no call of the Environment overflows the stack, and a call asks the     *)
(* fetcher at most once for each key that exists.                          *)
(***************************************************************************)
C15_CycleTerminates ==
    last.op \in {"infer", "Eval"} =>
        /\ last.err # ErrStackOverflow
        /\ last.fetched <= Cardinality(DOMAIN files)

(***************************************************************************)
(* C16: the cached value and type of a Scrap are written once.  An Eval of *)
(* a scrap that holds a value returns that value and evaluates nothing,    *)
(* likewise infer for a scrap that holds a type; and an Eval or infer that *)
(* fails leaves the scrap without a value, or without a type.              *)
(***************************************************************************)
C16_WrittenOnce ==
    [][/\ (last'.op = "Eval" /\ last'.key \in DOMAIN scraps /\ scraps[last'.key].value # nil) =>
              (last'.err = "" /\ last'.val = scraps[last'.key].value /\ last'.ran = 0
               /\ scraps'[last'.key].value = last'.val)
       /\ (last'.op = "infer" /\ last'.key \in DOMAIN scraps /\ scraps[last'.key].typ # NeverRef) =>
              (last'.err = "" /\ last'.ref = scraps[last'.key].typ /\ last'.ran = 0
               /\ scraps'[last'.key].typ = last'.ref)
       /\ (last'.op = "Eval" /\ last'.err # "") => scraps'[last'.key].value = nil
       /\ (last'.op = "infer" /\ last'.err # "") => scraps'[last'.key].typ = NeverRef]_vars

(***************************************************************************)
(* yards: the fetchers.  A fetcher is a record; FetchSha256 of a fetcher   *)
(* returns the bytes and the error, the cache directory as the call left   *)
(* it, and the calls it made of other fetchers, each with what that call   *)
(* returned.  Bytes are sequences of small numbers and nil bytes are nil.  *)
(***************************************************************************)
MaxBlob == 4

ErrWrongHash == "fetched bytes had wrong hash"

ErrNotExist == "file does not exist"

ErrPermission == "permission denied"

ErrNoSpace == "no space left on device"

(* sha256.Sum256, as a digest of one byte *)
RECURSIVE Sum256(_)
Sum256(bytes) ==
    IF bytes = <<>> THEN 227
    ELSE (Sum256(SubSeq(bytes, 1, Len(bytes) - 1)) * 31 + bytes[Len(bytes)]) % 256

LowerDigit(n) ==
    CASE n = 10 -> "a" [] n = 11 -> "b" [] n = 12 -> "c" [] n = 13 -> "d"
      [] n = 14 -> "e" [] n = 15 -> "f" [] OTHER -> ToString(n)

UpperDigit(n) ==
    CASE n = 10 -> "A" [] n = 11 -> "B" [] n = 12 -> "C" [] n = 13 -> "D"
      [] n = 14 -> "E" [] n = 15 -> "F" [] OTHER -> ToString(n)

(* fmt.Sprintf("%x", hash) *)
Sprintfx(hash) == LowerDigit(hash \div 16) \o LowerDigit(hash % 16)

(* the same digest as somebody writes it in upper case *)
SprintfX(hash) == UpperDigit(hash \div 16) \o UpperDigit(hash % 16)

Data == <<1, 2, 3>>

Corrupted == <<1, 2, 3, 4>>

KeyOf(bytes) == Sprintfx(Sum256(bytes))

FetchKeys == {KeyOf(Data), KeyOf(Corrupted), SprintfX(Sum256(Data)), "key1"}

ByDirectory(fs) == [k |-> "dir", fs |-> fs]

ByHttp(served) == [k |-> "http", fs |-> served]

Validate(fetcher) == [k |-> "valid", Fetcher |-> fetcher]

InOrder(options) == [k |-> "seq", options |-> options]

(* main is ByDirectory(os.DirFS(pathname)): it reads the cache directory *)
NewCacheFetcher(fetcher) == [k |-> "cache", fallback |-> fetcher]

Fetched(bs, err, d, made) == [bs |-> bs, err |-> err, files |-> d, calls |-> made]

Asked(f, key, res) == [f |-> f, key |-> key, bs |-> res.bs, err |-> res.err]

(* fs.ReadFile(d, key) *)
directoryFetch(fs, key) ==
    IF key \in DOMAIN fs THEN Fetched(fs[key], "", <<>>, <<>>)
    ELSE Fetched(nil, ErrNotExist, <<>>, <<>>)

(* httpFetcher.FetchSha256 *)
httpFetch(served, key) ==
    IF key \in DOMAIN served THEN Fetched(served[key], "", <<>>, <<>>)
    ELSE Fetched(nil, "http get failed with 404 Not Found", <<>>, <<>>)

validFetchUnchecked(v, key, res) == Fetched(res.bs, res.err, res.files, <<Asked(v.Fetcher, key, res)>>)

(* valid.FetchSha256, after v.Fetcher.FetchSha256(key) returned res *)
validFetch(v, key, res) ==
    IF res.err # ""
    THEN Fetched(nil, res.err, res.files, <<Asked(v.Fetcher, key, res)>>)
    ELSE IF Sprintfx(Sum256(res.bs)) # key
    THEN Fetched(nil, ErrWrongHash, res.files, <<Asked(v.Fetcher, key, res)>>)
    ELSE Fetched(res.bs, "", res.files, <<Asked(v.Fetcher, key, res)>>)

(* os.WriteFile(filepath.Join(c.path, key), bs, 0644): the file is opened  *)
(* with O_CREATE and O_TRUNC, the bytes are written and the file is        *)
(* closed.  w is what the file system does: the error it reports, and the  *)
(* number of bytes it wrote when the file was opened.                      *)
WriteFile(d, key, bs, w) ==
    IF ~w.opened THEN [files |-> d, err |-> w.err]
    ELSE IF w.err = "" THEN [files |-> Put(d, key, bs), err |-> ""]
    ELSE [files |-> Put(d, key, SubSeq(bs, 1, IF w.n < Len(bs) THEN w.n ELSE Len(bs))),
          err |-> w.err]

WriteOutcomes ==
    {[opened |-> TRUE, err |-> "", n |-> MaxBlob],
     [opened |-> FALSE, err |-> ErrPermission, n |-> 0],
     [opened |-> TRUE, err |-> ErrNoSpace, n |-> 2]}

(* return bs, os.WriteFile(...) *)
cacheWritten(bs, written, made) == Fetched(bs, written.err, written.files, made)

(* cachingFetcher.FetchSha256, after c.main.FetchSha256(key) returned hit  *)
(* and, when that failed, c.fallback.FetchSha256(key) returned res.        *)
cacheFetch(c, d, key, w, hit, res) ==
    IF hit.err = "" THEN Fetched(hit.bs, "", d, <<Asked(ByDirectory(d), key, hit)>>)
    ELSE IF res.err # ""
    THEN Fetched(nil, res.err, res.files,
                 <<Asked(ByDirectory(d), key, hit), Asked(c.fallback, key, res)>>)
    ELSE cacheWritten(res.bs, WriteFile(res.files, key, res.bs, w),
                      <<Asked(ByDirectory(d), key, hit), Asked(c.fallback, key, res)>>)

RECURSIVE FetchSha256(_, _, _, _)

RECURSIVE sequenceFetch(_, _, _, _, _, _)

sequenceNextAlways(s, key, w, i, made, res) ==
    sequenceFetch(s, res.files, key, w, i + 1, Append(made, Asked(s.options[i], key, res)))

(* the body of the loop of sequenceFetcher.FetchSha256, after              *)
(* f.FetchSha256(key) returned res                                          *)
sequenceNext(s, key, w, i, made, res) ==
    IF res.err = ""
    THEN Fetched(res.bs, "", res.files, Append(made, Asked(s.options[i], key, res)))
    ELSE sequenceFetch(s, res.files, key, w, i + 1,
                       Append(made, Asked(s.options[i], key, res)))

(* sequenceFetcher.FetchSha256, from the i-th fetcher on *)
sequenceFetch(s, d, key, w, i, made) ==
    IF i > Len(s.options) THEN Fetched(nil, ErrNotFound, d, made)
    ELSE sequenceNext(s, key, w, i, made, FetchSha256(s.options[i], d, key, w))

(* Fetcher.FetchSha256(key), with the cache directory d *)
FetchSha256(f, d, key, w) ==
    CASE f.k = "dir" -> [directoryFetch(f.fs, key) EXCEPT !.files = d]
      [] f.k = "http" -> [httpFetch(f.fs, key) EXCEPT !.files = d]
      [] f.k = "valid" -> validFetch(f, key, FetchSha256(f.Fetcher, d, key, w))
      [] f.k = "seq" -> sequenceFetch(f, d, key, w, 1, <<>>)
      [] f.k = "cache" ->
           cacheFetch(f, d, key, w, directoryFetch(d, key),
                      FetchSha256(f.fallback, d, key, w))

(* The yards of the model: one that serves every scrap under its hash, as  *)
(* TestValidate's does before it is corrupted, the same one after it was   *)
(* corrupted, and TestCache's, whose key is no hash.                       *)
Yard == (KeyOf(Data) :> Data) @@ (KeyOf(Corrupted) :> Corrupted)

CorruptYard == (KeyOf(Data) :> Corrupted) @@ (KeyOf(Corrupted) :> Corrupted)

NamedYard == "key1" :> Data

Sources ==
    {ByDirectory(Yard), ByDirectory(CorruptYard), ByDirectory(NamedYard), ByHttp(Yard)}

Fallbacks == Sources \cup {Validate(f) : f \in Sources}

Sequences ==
    {<<>>} \cup {<<f>> : f \in Sources}
           \cup {<<f, g>> : f \in Sources, g \in {ByDirectory(Yard), ByDirectory(NamedYard)}}
           \cup {<<NewCacheFetcher(ByDirectory(NamedYard)), ByDirectory(CorruptYard)>>}

InitFetch ==
    /\ reg = EmptyRegistry
    /\ last = [op |-> "init"]
    /\ calls = <<>>
    /\ heap = <<>>
    /\ bound = <<>>
    /\ scraps = <<>>
    /\ files = <<>>

FetchEnds(op, f, key, res) ==
    /\ last' = [op |-> op, f |-> f, key |-> key, bs |-> res.bs, err |-> res.err,
                calls |-> res.calls]
    /\ files' = res.files
    /\ UNCHANGED <<reg, calls, heap, bound, scraps>>

(* Validate(fetcher).FetchSha256(key) *)
DoFetchValid ==
    \E f \in Sources, key \in FetchKeys :
        FetchEnds("valid", Validate(f), key,
                  FetchSha256(Validate(f), files, key, CHOOSE w \in WriteOutcomes : w.err = ""))

(* NewCacheFetcher(pathname, fetcher).FetchSha256(key) *)
DoFetchCache ==
    \E f \in Fallbacks, key \in FetchKeys, w \in WriteOutcomes :
        FetchEnds("cache", NewCacheFetcher(f), key,
                  FetchSha256(NewCacheFetcher(f), files, key, w))

(* InOrder(options...).FetchSha256(key) *)
DoFetchInOrder ==
    \E options \in Sequences, key \in FetchKeys, w \in {o \in WriteOutcomes : o.opened} :
        FetchEnds("seq", InOrder(options), key,
                  FetchSha256(InOrder(options), files, key, w))

NextFetch == DoFetchValid \/ DoFetchCache \/ DoFetchInOrder

SpecFetch == InitFetch /\ [][NextFetch]_vars

(***************************************************************************)
(* C17: the validating fetcher returns bytes for a key only if the lower   *)
(* case hex sha256 of the bytes is the key.  When the wrapped fetcher      *)
(* returns bytes of another hash it returns ErrWrongHash and nil bytes,    *)
(* and when the wrapped fetcher fails it returns that error and nil bytes. *)
(***************************************************************************)
C17_ValidatedBytes ==
    /\ last.op = "valid" =>
         /\ Len(last.calls) = 1
         /\ last.calls[1].f = last.f.Fetcher
         /\ last.calls[1].key = last.key
         /\ last.calls[1].err # "" => last.err = last.calls[1].err /\ last.bs = nil
         /\ (last.calls[1].err = "" /\ Sprintfx(Sum256(last.calls[1].bs)) # last.key)
              => last.err = ErrWrongHash /\ last.bs = nil
         /\ (last.calls[1].err = "" /\ Sprintfx(Sum256(last.calls[1].bs)) = last.key)
              => last.err = "" /\ last.bs = last.calls[1].bs
    /\ last.op \in {"cache", "seq"} =>
         \A i \in DOMAIN last.calls :
             last.calls[i].f.k = "valid" =>
                 IF last.calls[i].err = ""
                 THEN Sprintfx(Sum256(last.calls[i].bs)) = last.calls[i].key
                 ELSE last.calls[i].bs = nil

C17_WrongHashSeen ==
    /\ last.op = "valid"
    /\ last.err = ErrWrongHash
    /\ last.calls[1].err = ""
    /\ last.calls[1].bs = Corrupted

(***************************************************************************)
(* C18: the caching fetcher reads the cache directory first and calls the  *)
(* fallback only when the directory has no file of the key.  When the      *)
(* fallback served the key, the file of the key holds the returned bytes   *)
(* when the call returns, and when the fallback failed the directory is as *)
(* it was.                                                                 *)
(***************************************************************************)
C18_WrittenBeforeReturn ==
    [][last'.op = "cache" =>
         /\ last'.calls[1].f = ByDirectory(files)
         /\ last'.key \in DOMAIN files =>
              /\ Len(last'.calls) = 1
              /\ last'.bs = files[last'.key]
              /\ last'.err = ""
              /\ files' = files
         /\ last'.key \notin DOMAIN files =>
              /\ Len(last'.calls) = 2
              /\ last'.calls[2].f = last'.f.fallback
              /\ last'.calls[2].err # "" => files' = files
              /\ last'.calls[2].err = "" =>
                   /\ last'.bs = last'.calls[2].bs
                   /\ last'.key \in DOMAIN files'
                   /\ files'[last'.key] = last'.bs]_vars

(* a later fetch is served what an earlier write left in the directory *)
C18_TruncatedServed ==
    /\ last.op = "cache"
    /\ last.err = ""
    /\ Len(last.calls) = 1
    /\ last.key = KeyOf(Data)
    /\ last.bs = <<1, 2>>

(***************************************************************************)
(* C19: the sequence fetcher asks its fetchers in the order given, stops   *)
(* at the first that succeeds and returns its bytes; it returns            *)
(* ErrNotFound and nil bytes exactly when every fetcher failed, whatever   *)
(* the errors were.                                                        *)
(***************************************************************************)
C19_FirstSuccess ==
    last.op = "seq" =>
        /\ Len(last.calls) <= Len(last.f.options)
        /\ \A i \in DOMAIN last.calls :
               /\ last.calls[i].f = last.f.options[i]
               /\ last.calls[i].key = last.key
               /\ i < Len(last.calls) => last.calls[i].err # ""
        /\ last.err \in {"", ErrNotFound}
        /\ last.err = "" =>
               /\ last.calls # <<>>
               /\ last.calls[Len(last.calls)].err = ""
               /\ last.bs = last.calls[Len(last.calls)].bs
        /\ last.err = ErrNotFound <=>
               /\ Len(last.calls) = Len(last.f.options)
               /\ \A i \in DOMAIN last.calls : last.calls[i].err # ""
        /\ last.err = ErrNotFound => last.bs = nil

C19_SecondServes ==
    /\ last.op = "seq"
    /\ Len(last.calls) = 2
    /\ last.calls[1].err \notin {"", ErrNotFound}
    /\ last.calls[2].err = ""
    /\ last.err = ""
    /\ last.bs = Data

(***************************************************************************)
(* Inference of list expressions on one registry, and the TypeRefs that    *)
(* types of one structure are given.  calls holds the last two inferences. *)
(***************************************************************************)
MaxSameVars == 3

ListOne == ListExpr(<<Int1>>)

ListNone == ListExpr(<<>>)

RecordOf(e) == RecordExpr([NoEntries EXCEPT !["a"] = e], Nil)

(* { ..{ a = [ 1 ] }, a = [] ++ [ 1 ] } *)
SpreadConcat ==
    RecordExpr([NoEntries EXCEPT !["a"] = BinaryExpr(ListNone, "CONCAT", ListOne)],
               RecordOf(ListOne))

ListPrograms ==
    {ListOne, ListNone,
     BinaryExpr(ListNone, "CONCAT", ListOne),
     BinaryExpr(ListOne, "CONCAT", ListNone),
     BinaryExpr(ListOne, "CONCAT", ListOne),
     BinaryExpr(Int1, "PREPEND", ListNone),
     BinaryExpr(ListNone, "APPEND", Int1),
     BinaryExpr(Int1, "PREPEND", ListOne),
     BinaryExpr(Text0, "CONCAT", Text0),
     BinaryExpr(Int1, "CONCAT", Text0),
     BinaryExpr(Text0, "PREPEND", ListOne),
     RecordOf(ListOne),
     RecordOf(BinaryExpr(ListNone, "CONCAT", ListOne)),
     SpreadConcat}

(* The structure of a type: every var stands for what it resolves to. *)
RECURSIVE Shape(_, _)
Shape(r, t) ==
    CASE tagOf(Resolve(r, t).ref) = listTag ->
           [k |-> "list", of |-> Shape(r, GetList(r, Resolve(r, t).ref))]
      [] tagOf(Resolve(r, t).ref) = funcTag ->
           [k |-> "func", arg |-> Shape(r, GetFunc(r, Resolve(r, t).ref).Arg),
            res |-> Shape(r, GetFunc(r, Resolve(r, t).ref).Result)]
      [] tagOf(Resolve(r, t).ref) = recordTag ->
           [k |-> "record",
            m |-> [key \in MapKeys(GetRecord(r, Resolve(r, t).ref)) |->
                      Shape(r, GetRecord(r, Resolve(r, t).ref)[key])]]
      [] OTHER -> [k |-> "ref", ref |-> Resolve(r, t).ref]

InitSame ==
    /\ reg = EmptyRegistry
    /\ last = NoOp
    /\ calls = {}
    /\ heap = <<>>
    /\ bound = <<>>
    /\ scraps = <<>>
    /\ files = <<>>

SameEnds(prog, res) ==
    /\ reg' = res.reg
    /\ last' = Inferred(prog, res)
    /\ calls' = {c \in {last} : c.op = "Infer"} \cup {Inferred(prog, res)}
    /\ UNCHANGED <<heap, bound, scraps, files>>

(* Infer(reg, scope, se, nil) of a list program, in the empty scope *)
DoInferList ==
    \E prog \in ListPrograms, ord \in KeyOrders :
        /\ Len(reg.vars) < MaxSameVars
        /\ SameEnds(prog, Recovered(infer(reg, <<>>, prog, ord)))

SpecSame == InitSame /\ [][DoInferList]_vars

(***************************************************************************)
(* C20: two expressions whose inferred types have the same structure once  *)
(* the type variables are resolved have the same TypeRef, as the types of  *)
(* [] ++ [ 1 ]  and of  [ 1 ]  do.                                         *)
(***************************************************************************)
C20_SameStructureSameRef ==
    \A one \in calls, other \in calls :
        (/\ one.err = ""
         /\ other.err = ""
         /\ Shape(reg, one.ref) = Shape(reg, other.ref)) => one.ref = other.ref

(* the spread compares the TypeRefs and rejects a type of the same         *)
(* structure                                                               *)
C20_SpreadRejected ==
    /\ last.op = "Infer"
    /\ last.prog = SpreadConcat
    /\ last.err = "type of a must be list int, not list int"

(***************************************************************************)
(* Inference of where clauses inside functions, in TestInferInScope's      *)
(* scope.                                                                  *)
(***************************************************************************)
MaxWhereVars == 12

(* f -> a -> ([ b, b ] ; b = (f a)) *)
NestedWhere ==
    FuncExpr(Ident("f"), FuncExpr(Ident("a"),
        WhereExpr(ListExpr(<<Ident("b"), Ident("b")>>), Ident("b"), Nil,
                  CallExpr(Ident("f"), Ident("a")))))

NestedLen == CallExpr(NestedWhere, Ident("len"))

NestedLenList == CallExpr(NestedLen, ListExpr(<<>>))

(* a -> (b ; b = a) *)
Renamed == FuncExpr(Ident("a"), WhereExpr(Ident("b"), Ident("b"), Nil, Ident("a")))

(* (a -> ([ b, 1 ] ; b = a)) "" *)
RenamedText ==
    CallExpr(FuncExpr(Ident("a"), WhereExpr(ListExpr(<<Ident("b"), Int1>>), Ident("b"), Nil, Ident("a"))),
             Text0)

WherePrograms == {NestedWhere, NestedLen, NestedLenList, Renamed, RenamedText, RecId2}

(* Infer(reg, scope, se, nil) of a program with a where clause *)
DoInferWhere ==
    \E prog \in WherePrograms, ord \in KeyOrders :
        /\ Len(reg.vars) < MaxWhereVars
        /\ SameEnds(prog, Recovered(infer(reg, TestScope.scope, prog, ord)))

SpecWhere == InitInfer /\ [][DoInferWhere]_vars

ListOfInt == [k |-> "list", of |-> [k |-> "ref", ref |-> IntRef]]

MaxDestructureTypes == 7

(* The expressions whose values are destructured. *)
Destructured ==
    {Literal("int", 1),
     ListExpr(<<>>),
     ListExpr(<<Literal("int", 1)>>),
     ListExpr(<<Literal("int", 1), Literal("int", 2)>>),
     ListExpr(<<Literal("int", 1), Literal("int", 2), Literal("int", 3)>>),
     Where(PickA, "e", TagsAB),
     Where(PickB, "e", TagsAB),
     RecordExpr(Entries(Nil, Nil), Nil),
     RecordExpr(Entries(Literal("int", 2), Nil), Nil),
     RecordExpr(Entries(Literal("int", 2), Literal("text", "t")), Nil)}

EntryPatterns == {Nil, Ident("a"), Ident("b"), Literal("int", 2), Literal("float", 1)}

DestructurePatterns ==
    {BinaryExpr(Ident("a"), op, Ident("b")) : op \in {"PREPEND", "APPEND"}}
    \cup {VariantExpr(tag, typ) : tag \in Keys, typ \in {Nil, Ident("x"), Literal("int", 7)}}
    \cup {RecordExpr(Entries(x, y), Ident("x")) : x, y \in EntryPatterns}

DestructureEnds(x, m) == Ends(m, MaxDestructureTypes, Matches(x, last.val, m))

(* Eval of one of the Destructured expressions: the value to match next. *)
DoDestructured ==
    \E of \in Destructured, ord \in KeyOrders : ValueOf(Eval(reg, of, ord), MaxDestructureTypes)

(* Match(source, reg, x, val) for the value evaluated last *)
DoDestructure ==
    /\ last.op = "Value"
    /\ last.err = ""
    /\ \E x \in DestructurePatterns, ord \in KeyOrders :
           DestructureEnds(x, Match(reg, x, last.val, ord))

NextDestructure == DoDestructured \/ DoDestructure

SpecDestructure == InitMatch /\ [][NextDestructure]_vars

Init1(elements) == SubSeq(elements, 1, Len(elements) - 1)

(***************************************************************************)
(* C22: the append pattern mirrors the prepend pattern.  init +< last      *)
(* against a list of n > 0 elements binds last to element n and init to    *)
(* the list of the first n - 1 elements; head >+ tail binds head to        *)
(* element 1 and tail to the list of the other elements; against the empty *)
(* list both are a no-match.                                               *)
(***************************************************************************)
C22_AppendMirrorsPrepend ==
    (last.op = "Match" /\ last.x.k = "bin" /\ last.val.k = "list") =>
        IF last.val.elements = <<>>
        THEN last.err = ErrNoMatch
        ELSE /\ last.err = ""
             /\ last.x.Op = "PREPEND" =>
                  /\ last.vars["a"] = last.val.elements[1]
                  /\ last.vars["b"] = ListValue(last.val.typ, Tail(last.val.elements))
             /\ last.x.Op = "APPEND" =>
                  /\ last.vars["b"] = last.val.elements[Len(last.val.elements)]
                  /\ last.vars["a"] = ListValue(last.val.typ, Init1(last.val.elements))

(***************************************************************************)
(* C23: the pattern #tag without a payload pattern matches the variant of  *)
(* that tag that has no payload and binds nothing; a variant pattern       *)
(* matches no variant of another tag and no other value; with a payload    *)
(* pattern the result is that of matching it against the payload.          *)
(***************************************************************************)
C23_VariantPattern ==
    (last.op = "Match" /\ last.x.k = "variant") =>
        IF last.val.k # "variant" \/ last.val.tag # last.x.Tag
        THEN last.err = ErrNoMatch
        ELSE /\ (last.x.Typ = Nil /\ last.val.value = nil) =>
                    last.err = "" /\ last.vars = NoVariables
             /\ last.x.Typ # Nil =>
                    /\ last.err = Match(reg, last.x.Typ, last.val.value, <<"a", "b">>).err
                    /\ last.vars = Match(reg, last.x.Typ, last.val.value, <<"a", "b">>).vars

PatternKeys(x) == {key \in Keys : x.Entries[key] # Nil}

HeldKeys(val) == {key \in Keys : val.values[key] # missing}

(* last is a match of a record pattern with the rest x against a record *)
RestMatched == last.op = "Match" /\ last.x.k = "rec" /\ last.val.k = "record"

Residual ==
    /\ last.vars["x"].k = "record"
    /\ last.vars["x"].values =
          [key \in Keys |-> IF key \in PatternKeys(last.x) THEN missing ELSE last.val.values[key]]
    /\ GetRecord(reg, last.vars["x"].typ) =
          [key \in Keys |-> IF key \in PatternKeys(last.x) \/ key \notin HeldKeys(last.val)
                            THEN Absent ELSE TypeOf(last.val.values[key])]

ValueKept ==
    GetRecord(reg, last.val.typ) =
        [key \in Keys |-> IF key \in HeldKeys(last.val) THEN TypeOf(last.val.values[key]) ELSE Absent]

(***************************************************************************)
(* C24: when  { ..x, k1 = p1, ... }  matches a record r, x is bound to the *)
(* record of the keys of r that the pattern does not list, with r's values *)
(* and r's field types; r's record type is as it was.  When r lacks a      *)
(* listed key the match ends with an error, never with a no-match: cannot  *)
(* bind to missing key K, or the error of another listed entry that was    *)
(* matched first (cannot match on floats, cannot bind twice).              *)
(***************************************************************************)
C24_ResidualRecord ==
    RestMatched =>
        /\ ValueKept
        /\ last.err = "" => Residual
        /\ ~(PatternKeys(last.x) \subseteq HeldKeys(last.val)) =>
              \/ \E key \in PatternKeys(last.x) \ HeldKeys(last.val) : last.err = MissingKey(key)
              \/ last.err = ErrNoFloatMatch
              \/ \E name \in Names : last.err = BoundTwice(name)

(* C24 as stated: a listed key that r lacks gives cannot bind to missing   *)
(* key K.                                                                  *)
C24_AlwaysMissingKey ==
    (RestMatched /\ ~(PatternKeys(last.x) \subseteq HeldKeys(last.val))) =>
        \E key \in PatternKeys(last.x) \ HeldKeys(last.val) : last.err = MissingKey(key)

(* { ..x, a = a } matched { a = 2, b = "t" } and bound x to { b = "t" } *)
C24_RestOfTwo ==
    /\ RestMatched
    /\ last.err = ""
    /\ PatternKeys(last.x) = {"a"}
    /\ HeldKeys(last.val) = {"a", "b"}
    /\ HeldKeys(last.vars["x"]) = {"b"}
    /\ last.vars["x"].values["b"] = TextValue("t")
----------------------------------------------------------------------------
(* Inference of picks and of nested calls.  The scope is the one of        *)
(* TestInferInScope with the primitive int of DefaultScope and with opt    *)
(* bound to the enum #a int #b.                                            *)

MaxPickVars == 6

PickScope ==
    LET opt == Enum(TestScope.reg, [EmptyMap EXCEPT !["a"] = IntRef, !["b"] = NeverRef])
    IN  [reg |-> opt.reg,
         scope |-> Bind(Bind(TestScope.scope, "int", IntRef), "opt", opt.ref)]

(* expr ; e : #a int #b *)
OfTagsAB(expr) == WhereExpr(expr, Ident("e"), TagsAB, Nil)

(* e::a ; e : #a int #b *)
PickBare == OfTagsAB(BinaryExpr(Ident("e"), "PICK", Ident("a")))
(* opt::a *)
PickBareInScope == BinaryExpr(Ident("opt"), "PICK", Ident("a"))

(* id (len 1)  and  len (id (len "")) *)
NestedCalls ==
    {CallExpr(Ident("id"), CallExpr(Ident("len"), Int1)),
     CallExpr(Ident("len"), CallExpr(Ident("id"), CallExpr(Ident("len"), Text0)))}

PickPrograms ==
    {PickBare, PickBareInScope, OfTagsAB(PickA), OfTagsAB(PickB),
     OfTagsAB(CallExpr(BinaryExpr(Ident("e"), "PICK", Ident("a")), Text0)),
     OfTagsAB(CallExpr(PickB, Int1)),
     BinaryExpr(Ident("int"), "PICK", Ident("a")),
     CallExpr(BinaryExpr(Ident("opt"), "PICK", Ident("a")), Int1),
     CallExpr(Ident("len"), ListExpr(<<CallExpr(Ident("id"), Int1)>>)),
     BinaryExpr(ListExpr(<<Int1>>), "LPIPE", Ident("len")),
     BinaryExpr(Ident("len"), "RPIPE", ListExpr(<<Text0>>))}
    \cup NestedCalls

InitPick ==
    /\ reg = PickScope.reg
    /\ last = NoOp
    /\ calls = {}
    /\ heap = <<>>
    /\ bound = <<>>
    /\ scraps = <<>>
    /\ files = <<>>

(* What the caller of types.Infer sees: the deferred function turns a      *)
(* token.Error into the returned error and panics again with any other     *)
(* value, which ends the program.                                          *)
Escaped(prog, res) == [op |-> "panic", prog |-> prog, ref |-> NeverRef, err |-> res.err]

PickEnds(prog, res) ==
    /\ reg' = res.reg
    /\ last' = IF res.err \in StringPanics THEN Escaped(prog, res) ELSE Inferred(prog, res)
    /\ calls' = {c \in {last} : c.op = "Infer"} \cup {last'}
    /\ UNCHANGED <<heap, bound, scraps, files>>

(* Infer(reg, scope, se, nil) of a program with picks or calls *)
DoInferPick ==
    \E prog \in PickPrograms, ord \in KeyOrders :
        /\ last.op # "panic"
        /\ Len(reg.vars) < MaxPickVars
        /\ PickEnds(prog, Recovered(infer(reg, PickScope.scope, prog, ord)))

SpecPick == InitPick /\ [][DoInferPick]_vars

(***************************************************************************)
(* C25: Infer never lets a panic escape: every call of Infer ends with a   *)
(* type or with an error.  A pick of a tag that carries a value, written   *)
(* without a value, ends with an error or a function type, and so does a   *)
(* unification failure raised inside nested calls.                         *)
(***************************************************************************)
C25_NoPanicEscapes ==
    /\ last.op # "panic"
    /\ (last.op = "Infer" /\ last.prog \in {PickBare, PickBareInScope}) =>
           \/ last.err # ""
           \/ Shape(reg, last.ref).k = "func"
    /\ (last.op = "Infer" /\ last.prog \in NestedCalls) => last.err # ""
----------------------------------------------------------------------------
(* Inference of records with a spread.  The scope is the one of            *)
(* TestInferInScope with base bound to the record type { a : int }.        *)

MaxBaseVars == 6

BaseScope ==
    LET base == Record(TestScope.reg, [EmptyMap EXCEPT !["a"] = IntRef])
    IN  [reg |-> base.reg, scope |-> Bind(TestScope.scope, "base", base.ref)]

OneA(v) == [NoEntries EXCEPT !["a"] = v]

(* expr ; base = { a = 1 } *)
OfBase(expr) == Where(expr, "base", RecordExpr(OneA(Int1), Nil))

(* b -> { ..base, a = b } *)
SpreadParam == FuncExpr(Ident("b"), RecordExpr(OneA(Ident("b")), Ident("base")))
(* x -> [ x, { a = 1 }, { ..x, a = 1 } ] *)
SpreadResolved ==
    FuncExpr(Ident("x"),
             ListExpr(<<Ident("x"), RecordExpr(OneA(Int1), Nil),
                        RecordExpr(OneA(Int1), Ident("x"))>>))
(* { ..base, a = 1 } *)
SpreadInt == RecordExpr(OneA(Int1), Ident("base"))

BasePrograms ==
    {SpreadParam, OfBase(SpreadParam), SpreadResolved, SpreadInt, OfBase(SpreadInt),
     RecordExpr(OneA(Text0), Ident("base")),
     RecordExpr([NoEntries EXCEPT !["b"] = Int1], Ident("base")),
     RecordExpr(OneA(Int1), Int1),
     FuncExpr(Ident("x"), RecordExpr(OneA(Int1), Ident("x"))),
     FuncExpr(Ident("b"), ListExpr(<<Ident("b"), Int1, RecordExpr(OneA(Ident("b")), Ident("base"))>>))}

InitBase ==
    /\ reg = BaseScope.reg
    /\ last = NoOp
    /\ calls = {}
    /\ heap = <<>>
    /\ bound = <<>>
    /\ scraps = <<>>
    /\ files = <<>>

(* Infer(reg, scope, se, nil) of a program with a record spread *)
DoInferBase ==
    \E prog \in BasePrograms, ord \in KeyOrders :
        /\ Len(reg.vars) < MaxBaseVars
        /\ SameEnds(prog, Recovered(infer(reg, BaseScope.scope, prog, ord)))

SpecBase == InitBase /\ [][DoInferBase]_vars

BaseRecord == [k |-> "record", m |-> [key \in {"a"} |-> [k |-> "ref", ref |-> IntRef]]]

(***************************************************************************)
(* C26: inferring a record with a spread unifies the type of every listed  *)
(* field with the base record's type for its key.  b -> { ..base, a = b }  *)
(* with base = { a = 1 }, where the listed field is an unbound parameter,  *)
(* is inferred without error as a function from int to the type of base;  *)
(* a spread whose type is a variable that is already resolved to a record  *)
(* is accepted as a record.                                                *)
(***************************************************************************)
C26_SpreadUnifies ==
    last.op = "Infer" =>
        /\ last.prog \in {SpreadParam, OfBase(SpreadParam)} =>
               /\ last.err = ""
               /\ Shape(reg, last.ref).k = "func"
               /\ Shape(reg, last.ref).arg = [k |-> "ref", ref |-> IntRef]
               /\ Shape(reg, last.ref).res = BaseRecord
        /\ last.prog = SpreadResolved => last.err = ""
----------------------------------------------------------------------------
(* The fetcher of the command line: makeEnv uses the default cache fetcher *)
(* over Validate over the http fetcher.  What the server answers is not    *)
(* in the program's hands: every fetch meets one of the yards.             *)

Servers == {ByHttp(Yard), ByHttp(CorruptYard), ByHttp(NamedYard)}

makeEnv(server) == NewCacheFetcher(Validate(server))

(* env.fetcher.FetchSha256(key) *)
DoFetchCli ==
    \E server \in Servers, key \in FetchKeys, w \in WriteOutcomes :
        FetchEnds("cli", makeEnv(server), key, FetchSha256(makeEnv(server), files, key, w))

SpecCli == InitFetch /\ [][DoFetchCli]_vars

IsPrefix(s, t) == Len(s) <= Len(t) /\ s = SubSeq(t, 1, Len(s))

(* C27 as stated: every file of the cache directory holds bytes whose      *)
(* sha256 is the file's name.                                              *)
C27_CachedFilesValid ==
    \A key \in DOMAIN files : Sprintfx(Sum256(files[key])) = key

(***************************************************************************)
(* C27: with the caching fetcher over Validate over the http fetcher, a    *)
(* fetch leaves the cache directory as it was or writes the file of its    *)
(* key.  A response of a wrong hash ends with ErrWrongHash and leaves the  *)
(* directory as it was.  A write that ends without error leaves under the  *)
(* key the bytes returned, whose sha256 is the key; a write that fails     *)
(* leaves nothing new or a prefix of bytes whose sha256 is the key, and    *)
(* the fetch ends with the error of the write.                             *)
(***************************************************************************)
C27_ValidOrFailedWrite ==
    [][last'.op = "cli" =>
         /\ \A key \in DOMAIN files : key \in DOMAIN files' /\ (key # last'.key => files'[key] = files[key])
         /\ DOMAIN files' \subseteq DOMAIN files \cup {last'.key}
         /\ (Len(last'.calls) = 2 /\ last'.calls[2].err = "") =>
              /\ last'.calls[2].f.k = "valid"
              /\ Sprintfx(Sum256(last'.calls[2].bs)) = last'.key
              /\ last'.bs = last'.calls[2].bs
              /\ last'.err = "" => files' = Put(files, last'.key, last'.bs)
              /\ last'.err # "" =>
                   \/ files' = files
                   \/ /\ last'.key \in DOMAIN files'
                      /\ IsPrefix(files'[last'.key], last'.bs)
         /\ (Len(last'.calls) = 2 /\ last'.calls[2].err # "") =>
              /\ files' = files
              /\ last'.err = last'.calls[2].err
         /\ Len(last'.calls) = 1 => files' = files
         /\ last'.err = ErrWrongHash => files' = files]_vars

(* the server answered a key with bytes of another hash while the cache    *)
(* held a file *)
C27_WrongHashKeptOut ==
    /\ last.op = "cli"
    /\ last.err = ErrWrongHash
    /\ Len(last.calls) = 2
    /\ last.calls[2].f = Validate(ByHttp(CorruptYard))
    /\ last.calls[2].bs = nil
    /\ files # <<>>
    /\ last.key \notin DOMAIN files
----------------------------------------------------------------------------
(* eval: equality of values. *)

MaxEqualTypes == 4

RECURSIVE Equals(_, _)

(* maps.EqualFunc(a, b, Equals) *)
EqualValues(a, b) ==
    /\ ValueKeys(a) = ValueKeys(b)
    /\ \A key \in ValueKeys(a) : Equals(a[key], b[key])

(* slices.EqualFunc(a, b, Equals) *)
EqualElements(a, b) ==
    /\ Len(a) = Len(b)
    /\ \A i \in DOMAIN a : Equals(a[i], b[i])

(* Equals and the eq method it calls for the type of a; the type switch    *)
(* has a case for every type of Value and none for the nil Value.          *)
Equals(a, b) ==
    CASE a.k = "hole" -> b.k = "hole"
      [] a.k \in {"int", "float", "text"} -> b.k = a.k /\ a.v = b.v
      [] a.k = "type" -> b.k = "type" /\ a.ref = b.ref
      [] a.k = "record" -> b.k = "record" /\ a.typ = b.typ /\ EqualValues(a.values, b.values)
      [] a.k = "list" -> b.k = "list" /\ a.typ = b.typ /\ EqualElements(a.elements, b.elements)
      [] a.k = "variant" -> b.k = "variant" /\ a.tag = b.tag /\ Equals(a.value, b.value)
      [] a.k = "builtin" -> b.k = "builtin" /\ a.name = b.name
      [] a.k = "func" -> b.k = "func" /\ a.source = b.source
      [] OTHER -> FALSE

(* expr ; e : #a int #b *)
WithTags(expr) == Where(expr, "e", TagsAB)

(* The expressions whose values are compared. *)
Compared ==
    {Literal("hole", 0), Literal("int", 1), Literal("int", 2), Literal("text", "t"),
     ListExpr(<<>>), ListExpr(<<Literal("int", 1)>>),
     RecordExpr(Entries(Nil, Nil), Nil),
     RecordExpr(Entries(Literal("int", 2), Literal("text", "t")), Nil),
     WithTags(PickA), WithTags(PickB),
     WithTags(ListExpr(<<PickB>>)), WithTags(ListExpr(<<PickA>>)),
     WithTags(RecordExpr(Entries(PickB, Nil), Nil)),
     WithTags(RecordExpr(Entries(PickA, Literal("int", 1)), Nil))}

Compares(x, y, a, b) ==
    [op |-> "Equals", x |-> x, y |-> y, a |-> a.val, b |-> b.val,
     err |-> IF a.err # "" THEN a.err ELSE b.err,
     out |-> a.err = "" /\ b.err = "" /\ Equals(a.val, b.val)]

EqualsEnds(x, y, a, b) == Ends(b, MaxEqualTypes, Compares(x, y, a, b))

Revalued(x, y, a, ord) == EqualsEnds(x, y, a, Eval(a.reg, y, ord))

(* Equals(a, b) for the values of two evaluations in one Environment *)
DoEquals ==
    \E x \in Compared, ord \in KeyOrders :
        \E y \in {x, Literal("int", 1), WithTags(PickB)} :
            Revalued(x, y, Eval(reg, x, ord), ord)

SpecEquals == InitMatch /\ [][DoEquals]_vars

(***************************************************************************)
(* C28: equality of values is reflexive on every value that is not a       *)
(* function.  A hole, an int, a text, a record, a list and a variant, the  *)
(* variant without payload and the records and lists that hold one         *)
(* included, are equal to themselves and to the value a second evaluation  *)
(* of their expression gives.                                              *)
(***************************************************************************)
C28_EqualsReflexive ==
    (last.op = "Equals" /\ last.err = "") =>
        /\ Equals(last.a, last.a)
        /\ Equals(last.b, last.b)
        /\ last.x = last.y => last.out
----------------------------------------------------------------------------
(* An Environment whose fetcher, like the MapFetcher of TestEvalImport,    *)
(* serves a script under a key that is not the script's hash: alias is     *)
(* served ScriptOne, and ScriptTwice imports alias twice.                  *)

Aliased == Put(Served, "alias", ScriptOne)

InitImport ==
    /\ reg = Func(EmptyRegistry, FloatRef, IntRef).reg
    /\ last = NoOp
    /\ calls = {}
    /\ heap = <<>>
    /\ bound = <<>>
    /\ scraps = <<>>
    /\ files = Aliased

(* scrap, err := env.Read(script), for ScriptTwice *)
DoReadTwice ==
    /\ Sha256(ScriptTwice) \notin DOMAIN scraps
    /\ EnvEnds("Read", Sha256(ScriptTwice), Read(Environment(reg, scraps, files), ScriptTwice))

NextImport == DoRead \/ DoReadTwice \/ DoInferScrap \/ DoEvalScrap

SpecImport == InitImport /\ [][NextImport]_vars

(* The keys an expression imports. *)
RECURSIVE Imports(_)
Imports(x) ==
    CASE x.k = "import" -> {x.Value}
      [] x.k = "call" -> Imports(x.Fn) \cup Imports(x.Arg)
      [] x.k = "bin" -> Imports(x.Left) \cup Imports(x.Right)
      [] x.k = "fn" -> Imports(x.Body)
      [] x.k = "rec" -> UNION {Imports(x.Entries[key]) : key \in Keys} \cup Imports(x.Rest)
      [] OTHER -> {}

(***************************************************************************)
(* C29: within one Environment the fetcher is asked at most once for a     *)
(* hash, whatever the fetcher serves: a call of infer or Eval asks the     *)
(* fetcher at most once for each key the scrap imports, and not at all for *)
(* a key whose import succeeded in an earlier call; and every key of the   *)
(* scrap map is the sha256 of its scrap's source.                          *)
(***************************************************************************)
C29_AskedOnce ==
    [][/\ (last'.op \in {"infer", "Eval"} /\ last'.key \in DOMAIN scraps
           /\ \A key \in Imports(scraps[last'.key].expr) : Imports(files[key]) = {}) =>
              /\ last'.fetched <= Cardinality(Imports(scraps[last'.key].expr))
              /\ (last.op \in {"infer", "Eval"} /\ last.key = last'.key /\ last.err = "") =>
                     last'.fetched = 0
       /\ \A key \in DOMAIN scraps' : Sha256(scraps'[key].expr) = key]_vars
----------------------------------------------------------------------------
(* Environment.fetch, after e.fetcher.FetchSha256(key) returned res: the   *)
(* error when there is one, and else the bytes for Environment.Read.       *)
fetchRead(res) == IF res.err # "" THEN [bs |-> nil, err |-> res.err] ELSE [bs |-> res.bs, err |-> ""]

BytesOrError(res) ==
    \/ res.err = "" /\ res.bs # nil
    \/ res.err # "" /\ res.bs = nil

(***************************************************************************)
(* C30: FetchSha256 of every fetcher returns bytes and no error, or an     *)
(* error and nil bytes, never both and never neither.  So does the caching *)
(* fetcher when the fallback served the key and the cache file could not   *)
(* be written, and an import whose fetcher is the caching fetcher succeeds *)
(* whenever the fallback returned the bytes.                               *)
(***************************************************************************)
C30_BytesOrError ==
    last.op \in {"valid", "cache", "seq"} =>
        /\ BytesOrError(last)
        /\ \A i \in DOMAIN last.calls : BytesOrError(last.calls[i])
        /\ (last.op = "cache" /\ Len(last.calls) = 2 /\ last.calls[2].err = "") =>
               /\ fetchRead(last).err = ""
               /\ fetchRead(last).bs = last.calls[2].bs

====
